---- MODULE Spec2Model ----
(***************************************************************************)
(* Model of Trinovantes/action-automatic-release: one process invocation   *)
(* (main.ts) builds an AutomaticRelease and awaits run(); every awaited    *)
(* call of the GitHub client is one step of the model.  The remote         *)
(* repository (branch head, tag refs, releases) is state of the model.     *)
(***************************************************************************)
EXTENDS Integers, Sequences, FiniteSets, TLC

VARIABLES
    githubToken,    \* process.env.GITHUB_TOKEN is set
    isDryRun,       \* AutomaticRelease.isDryRun
    actionArgs,     \* AutomaticRelease.actionArgs
    ghContextRef,   \* ghContext.ref, split at "/"
    branchHead,     \* remote: commit of heads/<branch>
    tagRefs,        \* remote: tag name -> commit hash, or Null when the ref is absent
    releases,       \* remote: the release records
    nextReleaseId,  \* remote: id the next created release gets
    pc,             \* position of the run
    local,          \* local variables of run / runFor... / generateChangeLog
    output,         \* what core.setOutput exported (NoOutput before)
    failure,        \* message given to core.setFailed ("" before)
    calls,          \* remote calls issued by this run, in order
    runs,           \* number of process invocations so far
    prevRun,        \* what the previous invocation exported and reconciled
    startRemote     \* the tag refs and releases of the remote when this run started

cfgVars == <<githubToken, isDryRun, actionArgs, ghContextRef>>
remoteVars == <<branchHead, tagRefs, releases, nextReleaseId>>
runVars == <<pc, local, output, failure, calls>>
histVars == <<runs, prevRun, startRemote>>
vars == <<cfgVars, remoteVars, runVars, histVars>>

----------------------------------------------------------------------------
(* Bounds of the model *)

\* number of tag names of AllTagNames that may exist on the remote
NumTags == 7
\* number of commits in the (linear) history of the branch
NumCommits == 3
\* number of process invocations in a behaviour
MaxRuns == 2
\* number of tag names of AllTagNames that may exist on the remote of a whole run
NumRunTags == 3
\* number of commits a range comparison returns when the history is left open
MaxLogLen == 3
MaxTextLogLen == 2

(* Program constants *)
SHORT_SHA_LEN == 8
\* null of a release-id lookup; GitHub's ids are positive, so "!releaseId" is "no release"
NoReleaseId == 0
\* release id returned in dry-run mode
DryRunReleaseId == 0 - 1

\* null / undefined / '' of a string-valued expression: the code only ever tests
\* such values with "!x", "x ?? y" on non-empty strings, or "x ?? ''"
Null == ""
\* '' of the upload url (a real upload url is <<"upload_url", id>>)
EmptyUrl == <<>>
\* base ref the code compares from when the previous tag does not exist
HEAD == "HEAD"

----------------------------------------------------------------------------
(* Semantic versions (npm semver: valid, rcompare, lt) *)

AllTagNames ==
    <<"nightly", "1.0.0", "2.0.0", "1.1.0", "0.9.0", "2.0.0-rc.1", "v1.1.0",
      "2.0.0-alpha", "1.0.0+build">>

TagNames == {AllTagNames[i] : i \in 1..NumTags}

Num(n) == [numeric |-> TRUE, value |-> n]
\* an alphanumeric prerelease identifier, by its rank in ASCII order
Alpha(rank) == [numeric |-> FALSE, value |-> rank]

SemVer(ma, mi, pa, pre) ==
    [valid |-> TRUE, major |-> ma, minor |-> mi, patch |-> pa, prerelease |-> pre]

\* new SemVer(version): the parse of a tag name ("v" prefix and build metadata
\* are accepted and take no part in the comparison)
SemverParse(version) ==
    CASE version = "1.0.0" -> SemVer(1, 0, 0, <<>>)
      [] version = "2.0.0" -> SemVer(2, 0, 0, <<>>)
      [] version = "1.1.0" -> SemVer(1, 1, 0, <<>>)
      [] version = "0.9.0" -> SemVer(0, 9, 0, <<>>)
      [] version = "2.0.0-rc.1" -> SemVer(2, 0, 0, <<Alpha(2), Num(1)>>)
      [] version = "v1.1.0" -> SemVer(1, 1, 0, <<>>)
      [] version = "2.0.0-alpha" -> SemVer(2, 0, 0, <<Alpha(1)>>)
      [] version = "1.0.0+build" -> SemVer(1, 0, 0, <<>>)
      [] OTHER -> [valid |-> FALSE, major |-> 0, minor |-> 0, patch |-> 0,
                   prerelease |-> <<>>]

\* a validation that accepts every tag name
semverValidLenient(version) == TRUE

semverValid(version) == SemverParse(version).valid

Sign(a, b) == IF a < b THEN 0 - 1 ELSE IF a > b THEN 1 ELSE 0

compareIdentifiers(a, b) ==
    IF a.numeric /\ b.numeric THEN Sign(a.value, b.value)
    ELSE IF a.numeric THEN 0 - 1
    ELSE IF b.numeric THEN 1
    ELSE Sign(a.value, b.value)

RECURSIVE comparePreFrom(_, _, _)
comparePreFrom(a, b, i) ==
    IF i > Len(a) /\ i > Len(b) THEN 0
    ELSE IF i > Len(b) THEN 1
    ELSE IF i > Len(a) THEN 0 - 1
    ELSE IF a[i] = b[i] THEN comparePreFrom(a, b, i + 1)
    ELSE compareIdentifiers(a[i], b[i])

\* a comparison that leaves the pre-release identifiers out
comparePreIgnored(a, b) == 0

comparePre(a, b) ==
    IF Len(a) > 0 /\ Len(b) = 0 THEN 0 - 1
    ELSE IF Len(a) = 0 /\ Len(b) > 0 THEN 1
    ELSE IF Len(a) = 0 /\ Len(b) = 0 THEN 0
    ELSE comparePreFrom(a, b, 1)

compareMain(a, b) ==
    IF a.major # b.major THEN Sign(a.major, b.major)
    ELSE IF a.minor # b.minor THEN Sign(a.minor, b.minor)
    ELSE Sign(a.patch, b.patch)

semverCompare(a, b) ==
    LET x == SemverParse(a)
        y == SemverParse(b)
    IN  IF compareMain(x, y) # 0 THEN compareMain(x, y)
        ELSE comparePre(x.prerelease, y.prerelease)

\* the ascending comparison in the place of the descending one
semverRcompareAscending(a, b) == semverCompare(a, b)

semverRcompare(a, b) == semverCompare(b, a)

semverLt(a, b) == semverCompare(a, b) < 0

----------------------------------------------------------------------------
(* getTagBeforeCurrentTag *)

\* Array.prototype.sort with a comparator is stable: a tag comes after those
\* the comparator puts before it and after its equals that were listed earlier
SortedIndex(tags, i) ==
    1 + Cardinality({j \in 1..Len(tags) :
                        \/ semverRcompare(tags[j], tags[i]) < 0
                        \/ semverRcompare(tags[j], tags[i]) = 0 /\ j < i})

SortTags(tags) ==
    [k \in 1..Len(tags) |->
        tags[CHOOSE i \in 1..Len(tags) : SortedIndex(tags, i) = k]]

\* the loop over semverTags returns the first tag that semverLt accepts
FirstLessThan(semverTags, currentTag) ==
    LET lower == {i \in 1..Len(semverTags) : semverLt(semverTags[i], currentTag)}
    IN  IF lower = {} THEN Null
        ELSE semverTags[CHOOSE i \in lower : \A j \in lower : i <= j]

\* the part of getTagBeforeCurrentTag after the tags are listed
getTagBeforeCurrentTag(allTags, currentTag) ==
    LET semverTags == SortTags(SelectSeq(allTags, semverValid))
    IN  FirstLessThan(semverTags, currentTag)

----------------------------------------------------------------------------
(* getTagName *)

\* the segments of a ref put together again with "/" between them
RECURSIVE JoinSegments(_)
JoinSegments(segments) ==
    IF Len(segments) = 1 THEN segments[1]
    ELSE segments[1] \o "/" \o JoinSegments(Tail(segments))

\* a reading of the ref that takes its last segment for the tag name
getTagNameLastSegment(tagRef) == tagRef[Len(tagRef)]

\* /^(refs\/)?tags\/(?<tagName>.*)$/ on a ref split at "/": the name is all
\* that follows "tags/", further "/" included.  Null when the ref does not
\* match or the name is empty.
getTagName(tagRef) ==
    LET rest == IF Len(tagRef) > 0 /\ tagRef[1] = "refs" THEN Tail(tagRef) ELSE tagRef
    IN  IF Len(rest) >= 2 /\ rest[1] = "tags" THEN JoinSegments(Tail(rest)) ELSE Null

----------------------------------------------------------------------------
(* The remote repository *)

AllHashes == <<"c1", "c2", "c3", "c4", "c5", "c6">>
Hashes == {AllHashes[i] : i \in 1..NumCommits}

\* position of a commit in the history of the branch; 0 is before the first commit
Pos(ref) == IF ref \in Hashes THEN CHOOSE i \in 1..NumCommits : AllHashes[i] = ref ELSE 0

\* the commit a version tag was pushed at
TagCommit(tag) ==
    IF tag \in {"0.9.0", "1.0.0", "1.0.0+build"} THEN AllHashes[1]
    ELSE IF tag = "2.0.0" THEN AllHashes[NumCommits]
    ELSE AllHashes[2]

\* commit.commit.message as CommitParser.parse returns it, with author and sha
CommitAt(i) ==
    LET kind == ((i - 1) % 4) + 1
        base == [sha |-> AllHashes[i], authorName |-> "alice", merge |-> Null,
                 type |-> Null, scope |-> Null, subject |-> Null, header |-> Null,
                 body |-> Null, footer |-> Null]
    IN  CASE kind = 1 -> [base EXCEPT !.type = "feat", !.subject = "add X",
                                      !.header = "feat: add X"]
          [] kind = 2 -> [base EXCEPT !.merge = "Merge pull request #7 from dev",
                                      !.header = "Merge pull request #7 from dev"]
          [] kind = 3 -> [base EXCEPT !.header = "update deps", !.authorName = "bob",
                                      !.body = "BREAKING CHANGE: drops node 16"]
          [] OTHER    -> [base EXCEPT !.type = "fix", !.scope = "api",
                                      !.subject = "correct Y",
                                      !.header = "fix(api): correct Y"]

\* pull requests the remote associates with a commit
PullRequestsOf(sha) ==
    IF Pos(sha) % 3 = 0
    THEN <<[number |-> 40 + Pos(sha), url |-> <<"pull", 40 + Pos(sha)>>],
           [number |-> 60 + Pos(sha), url |-> <<"pull", 60 + Pos(sha)>>]>>
    ELSE IF Pos(sha) % 2 = 1
    THEN <<[number |-> 40 + Pos(sha), url |-> <<"pull", 40 + Pos(sha)>>]>>
    ELSE <<>>

\* what a ref given to compareCommits resolves to: a hash is itself, HEAD is the
\* start of the history, a tag name is the tag's commit (Null when absent)
ResolveRef(ref, tags) ==
    IF ref \in Hashes THEN ref
    ELSE IF ref = HEAD THEN HEAD
    ELSE IF ref \in DOMAIN tags THEN tags[ref]
    ELSE Null

\* compareResult.data.commits: the commits after base up to and including head
CompareCommits(base, head) ==
    [k \in 1..(IF Pos(head) > Pos(base) THEN Pos(head) - Pos(base) ELSE 0) |->
        CommitAt(Pos(base) + k)]

ReleaseOf(tag, rels) == {r \in rels : r.tag_name = tag}

\* a lookup that reports every release as not found
ReleaseIdNeverFound(tag, rels) == NoReleaseId

\* getReleaseByTag: the id of the release of the tag, NoReleaseId on "Not Found"
ReleaseIdOf(tag, rels) ==
    IF ReleaseOf(tag, rels) = {} THEN NoReleaseId
    ELSE (CHOOSE r \in ReleaseOf(tag, rels) : TRUE).id

UploadUrl(id) == <<"upload_url", id>>

Call(op, ref, id, result) == [op |-> op, ref |-> ref, id |-> id, result |-> result]

MutatingOps ==
    {"createRef", "updateRef", "deleteRef", "createRelease", "updateRelease", "deleteRelease"}

----------------------------------------------------------------------------
(* generateChangeLog *)

ALL_COMMIT_TYPES ==
    << [key |-> "feat", label |-> "Features"],
       [key |-> "fix", label |-> "Bug Fixes"],
       [key |-> "docs", label |-> "Documentation"],
       [key |-> "style", label |-> "Styles"],
       [key |-> "refactor", label |-> "Code Refactoring"],
       [key |-> "perf", label |-> "Performance Improvements"],
       [key |-> "test", label |-> "Tests"],
       [key |-> "build", label |-> "Builds"],
       [key |-> "ci", label |-> "Continuous Integration"],
       [key |-> "chore", label |-> "Chores"],
       [key |-> "revert", label |-> "Reverts"] >>

\* the characters of a commit hash (the model's hashes stand for 40 hex digits)
ShaChars(sha) == <<sha, "0", "1", "2", "3", "4", "5", "6", "7", "8">>

\* one rendered line; the scope written first is overwritten by the assignment
\* that follows it, so it never reaches the entry
getFormattedChangeLogEntry(commit) ==
    LET shortSha == SubSeq(ShaChars(commit.sha), 1, SHORT_SHA_LEN - 1)
        url == <<"html_url", commit.sha>>
    IN  IF commit.type # Null
        THEN [form |-> "subject", text |-> commit.subject, shortSha |-> <<>>,
              author |-> commit.authorName, url |-> url, prs |-> commit.pullRequests]
        ELSE [form |-> "hash", text |-> commit.header, shortSha |-> shortSha,
              author |-> commit.authorName, url |-> url, prs |-> commit.pullRequests]

\* the characters of the texts of the model's commits; an absent text is
\* tested as the empty string (commit.body ?? '')
WordBreaking == <<"B", "R", "E", "A", "K", "I", "N", "G">>
WordChange == <<"C", "H", "A", "N", "G", "E">>
WordDrops == <<"d", "r", "o", "p", "s", " ", "n", "o", "d", "e", " ", "1", "6">>

CharsOf(text) ==
    CASE text = Null -> <<>>
      [] text = "details" -> <<"d", "e", "t", "a", "i", "l", "s">>
      [] text = "BREAKING CHANGE: drops node 16" ->
             WordBreaking \o <<" ">> \o WordChange \o <<":", " ">> \o WordDrops
      [] text = "BREAKING CHANGES: drops node 16" ->
             WordBreaking \o <<" ">> \o WordChange \o <<"S", ":", " ">> \o WordDrops
      [] text = "see BREAKING CHANGE: later" ->
             <<"s", "e", "e", " ">> \o WordBreaking \o <<" ">> \o WordChange
                 \o <<":", " ", "l", "a", "t", "e", "r">>
      [] text = "breaking change: none" ->
             <<"b", "r", "e", "a", "k", "i", "n", "g", " ", "c", "h", "a", "n", "g", "e",
               ":", " ", "n", "o", "n", "e">>
      [] text = "Breaking Change: x" ->
             <<"B", "r", "e", "a", "k", "i", "n", "g", " ", "C", "h", "a", "n", "g", "e",
               ":", " ", "x">>
      [] text = "BREAKING CHANGE:\nx" ->
             WordBreaking \o <<" ">> \o WordChange \o <<":", "\n", "x">>
      [] text = "BREAKING CHANGE:  x" ->
             WordBreaking \o <<" ">> \o WordChange \o <<":", " ", " ", "x">>
      [] text = "BREAKING CHANGE:" -> WordBreaking \o <<" ">> \o WordChange \o <<":">>
      [] text = "BREAKING CHANGE:x" -> WordBreaking \o <<" ">> \o WordChange \o <<":", "x">>
      [] text = "BREAKING CHANGE x" -> WordBreaking \o <<" ">> \o WordChange \o <<" ", "x">>
      [] text = "BREAKING CHANGE : x" ->
             WordBreaking \o <<" ">> \o WordChange \o <<" ", ":", " ", "x">>
      [] text = "BREAKING CHANGESS: x" ->
             WordBreaking \o <<" ">> \o WordChange \o <<"S", "S", ":", " ", "x">>
      [] text = "BREAKINGCHANGE: x" -> WordBreaking \o WordChange \o <<":", " ", "x">>
      [] text = "BREAKING-CHANGE: x" ->
             WordBreaking \o <<"-">> \o WordChange \o <<":", " ", "x">>
      [] text = " BREAKING CHANGE: x" ->
             <<" ">> \o WordBreaking \o <<" ">> \o WordChange \o <<":", " ", "x">>
      [] text = "x\nBREAKING CHANGE: x" ->
             <<"x", "\n">> \o WordBreaking \o <<" ">> \o WordChange \o <<":", " ", "x">>
      [] text = "BREAKING  CHANGE: x" ->
             WordBreaking \o <<" ", " ">> \o WordChange \o <<":", " ", "x">>
      [] text = "BREAKING\tCHANGES: x" ->
             WordBreaking \o <<"\t">> \o WordChange \o <<"S", ":", " ", "x">>
      [] text = "BREAKING\nCHANGE: x" ->
             WordBreaking \o <<"\n">> \o WordChange \o <<":", " ", "x">>

\* the class \s over the characters of the model
IsWhitespace(c) == c \in {" ", "\t", "\n", "\r"}

\* the literal lit matches the characters of chars from position i on
MatchLiteral(chars, i, lit) ==
    /\ i + Len(lit) - 1 <= Len(chars)
    /\ SubSeq(chars, i, i + Len(lit) - 1) = lit

\* \s+ and \s* are greedy: the position after the run of whitespace from i on
RECURSIVE SkipWhitespace(_, _)
SkipWhitespace(chars, i) ==
    IF i <= Len(chars) /\ IsWhitespace(chars[i]) THEN SkipWhitespace(chars, i + 1) ELSE i

\* a test that finds the marker anywhere in the text
RECURSIVE BreakingReFrom(_, _)
BreakingReFrom(chars, from) ==
    IF from > Len(chars) THEN FALSE
    ELSE LET afterBreaking == from + Len(WordBreaking)
             change == SkipWhitespace(chars, afterBreaking)
             afterChange == change + Len(WordChange)
             colon == IF afterChange <= Len(chars) /\ chars[afterChange] = "S"
                      THEN afterChange + 1 ELSE afterChange
             here == /\ MatchLiteral(chars, from, WordBreaking)
                     /\ change > afterBreaking
                     /\ MatchLiteral(chars, change, WordChange)
                     /\ MatchLiteral(chars, colon, <<":">>)
                     /\ SkipWhitespace(chars, colon + 1) > colon + 1
         IN  here \/ BreakingReFrom(chars, from + 1)

BreakingReUnanchored(text) == BreakingReFrom(CharsOf(text), 1)

\* /^BREAKING\s+CHANGES?:\s+/.test(text): the pattern is anchored at the first
\* character; after S? only a colon can follow, so no backtracking is needed
BreakingRe(text) ==
    LET chars == CharsOf(text)
        afterBreaking == 1 + Len(WordBreaking)
        change == SkipWhitespace(chars, afterBreaking)
        afterChange == change + Len(WordChange)
        colon == IF afterChange <= Len(chars) /\ chars[afterChange] = "S"
                 THEN afterChange + 1 ELSE afterChange
    IN  /\ MatchLiteral(chars, 1, WordBreaking)
        /\ change > afterBreaking
        /\ MatchLiteral(chars, change, WordChange)
        /\ MatchLiteral(chars, colon, <<":">>)
        /\ SkipWhitespace(chars, colon + 1) > colon + 1

IsBreakingChange(commit) == BreakingRe(commit.body) \/ BreakingRe(commit.footer)

RECURSIVE MapEntries(_)
MapEntries(commits) ==
    IF commits = <<>> THEN <<>>
    ELSE <<getFormattedChangeLogEntry(Head(commits))>> \o MapEntries(Tail(commits))

\* a writeToChangeLog that puts its section in front of the document
writeToChangeLogInFront(changeLog, filteredCommits, label) ==
    LET filteredCommitLogs == MapEntries(filteredCommits)
    IN  IF Len(filteredCommitLogs) > 0
        THEN <<[label |-> label, entries |-> filteredCommitLogs]>> \o changeLog
        ELSE changeLog

\* writeToChangeLog, given the commits that pass its filter: a section is
\* appended only when there is one
writeToChangeLog(changeLog, filteredCommits, label) ==
    LET filteredCommitLogs == MapEntries(filteredCommits)
    IN  IF Len(filteredCommitLogs) > 0
        THEN Append(changeLog, [label |-> label, entries |-> filteredCommitLogs])
        ELSE changeLog

RECURSIVE LabelledChanges(_, _, _)
LabelledChanges(changeLog, parsedCommits, i) ==
    IF i > Len(ALL_COMMIT_TYPES) THEN changeLog
    ELSE LET HasKey(commit) == commit.type = ALL_COMMIT_TYPES[i].key
         IN  LabelledChanges(
                 writeToChangeLog(changeLog, SelectSeq(parsedCommits, HasKey),
                                  ALL_COMMIT_TYPES[i].label),
                 parsedCommits, i + 1)

\* a key list that has lost the key fix
commitTypeKeysWithoutFix ==
    {ALL_COMMIT_TYPES[i].key : i \in 1..Len(ALL_COMMIT_TYPES)} \ {"fix"}

commitTypeKeys == {ALL_COMMIT_TYPES[i].key : i \in 1..Len(ALL_COMMIT_TYPES)}

\* a rendering that stamps the document with the number of the run
RenderChangeLogStamped(parsedCommits) ==
    LET Unlabelled(commit) == commit.type = Null \/ commit.type \notin commitTypeKeys
        breaking == writeToChangeLog(<<>>, SelectSeq(parsedCommits, IsBreakingChange),
                                     "Breaking Changes")
        labelled == LabelledChanges(breaking, parsedCommits, 1)
    IN  Append(writeToChangeLog(labelled, SelectSeq(parsedCommits, Unlabelled), "Commits"),
               [label |-> "Generated", entries |-> <<runs>>])

\* a rendering whose catch-all section takes the commits without a type only
RenderChangeLogUntypedOnly(parsedCommits) ==
    LET Unlabelled(commit) == commit.type = Null
        breaking == writeToChangeLog(<<>>, SelectSeq(parsedCommits, IsBreakingChange),
                                     "Breaking Changes")
        labelled == LabelledChanges(breaking, parsedCommits, 1)
    IN  writeToChangeLog(labelled, SelectSeq(parsedCommits, Unlabelled), "Commits")

\* a rendering that moves a breaking commit out of its category section
RenderChangeLogMovesBreaking(parsedCommits) ==
    LET Unlabelled(commit) == commit.type = Null \/ commit.type \notin commitTypeKeys
        NotBreaking(commit) == ~IsBreakingChange(commit)
        breaking == writeToChangeLog(<<>>, SelectSeq(parsedCommits, IsBreakingChange),
                                     "Breaking Changes")
        labelled == LabelledChanges(breaking, SelectSeq(parsedCommits, NotBreaking), 1)
    IN  writeToChangeLog(labelled, SelectSeq(parsedCommits, Unlabelled), "Commits")

\* the document generateChangeLog returns for the parsed commits of the range
RenderChangeLog(parsedCommits) ==
    LET Unlabelled(commit) == commit.type = Null \/ commit.type \notin commitTypeKeys
        breaking == writeToChangeLog(<<>>, SelectSeq(parsedCommits, IsBreakingChange),
                                     "Breaking Changes")
        labelled == LabelledChanges(breaking, parsedCommits, 1)
    IN  writeToChangeLog(labelled, SelectSeq(parsedCommits, Unlabelled), "Commits")

\* parsedCommit.merge || parsedCommit.header?.startsWith('Merge')
StartsWithMerge(header) ==
    header \in {"Merge pull request #7 from dev", "Merge branch dev into master"}
\* a test that looks at the merge field only
IsMergeCommitFieldOnly(commit) == commit.merge # Null

IsMergeCommit(commit) == commit.merge # Null \/ StartsWithMerge(commit.header)

\* a loop that asks for the pull requests of merge commits as well
SkipMergesNever(commits) == commits

\* the loop of getCommitsBetweenCommits skips merge commits without a remote call
RECURSIVE SkipMerges(_)
SkipMerges(commits) ==
    IF commits = <<>> THEN <<>>
    ELSE IF IsMergeCommit(Head(commits)) THEN SkipMerges(Tail(commits))
    ELSE commits

----------------------------------------------------------------------------
(* Initial states *)

InitLocal ==
    [headHash |-> Null, currReleaseTag |-> Null, prevReleaseTag |-> Null,
     tagBefore |-> Null, prevRelease |-> Null, compareResult |-> <<>>,
     commits |-> <<>>,
     parsedCommits |-> <<>>, changeLog |-> <<>>, tagExists |-> Null,
     foundReleaseId |-> NoReleaseId,
     releaseId |-> NoReleaseId, uploadUrl |-> EmptyUrl]

NoOutput ==
    [exported |-> FALSE, tag |-> Null, prev_tag |-> Null,
     release_id |-> NoReleaseId, upload_url |-> EmptyUrl]

NoPrevRun ==
    [outcome |-> "none", output |-> NoOutput, calls |-> <<>>, parsedCommits |-> <<>>,
     changeLog |-> <<>>]

\* a release left by an earlier invocation
OldRelease(tag) ==
    [id |-> 1, tag_name |-> tag, name |-> "old title", body |-> <<>>,
     draft |-> FALSE, prerelease |-> TRUE]

\* is_draft and is_prerelease: the defaults, and both changed
Flags == {<<FALSE, TRUE>>, <<TRUE, FALSE>>}

RollingTag == AllTagNames[1]
RunTagNames == {AllTagNames[i] : i \in 1..NumRunTags}

ExplicitRefs(names) ==
    {<<"refs", "tags", n>> : n \in names} \cup {<<"tags", n>> : n \in names}
        \cup {<<"refs", "heads", "master">>, <<"refs", "tags", Null>>}

InitRun ==
    /\ pc = "start"
    /\ local = InitLocal
    /\ output = NoOutput
    /\ failure = Null
    /\ calls = <<>>
    /\ runs = 1
    /\ prevRun = NoPrevRun
    /\ startRemote = [tagRefs |-> tagRefs, releases |-> releases]
    /\ nextReleaseId = 2

\* rolling-tag mode: auto_release_tag is set; the rolling tag and its release
\* may or may not exist, the tag at any commit, beside any of the other tags
InitRolling ==
    /\ githubToken \in BOOLEAN
    /\ isDryRun \in BOOLEAN
    /\ \E title \in {Null, "Nightly Build"}, f \in Flags :
         actionArgs = [autoReleaseTag |-> RollingTag, autoReleaseTitle |-> title,
                       isDraft |-> f[1], isPreRelease |-> f[2]]
    /\ ghContextRef = <<"refs", "heads", "master">>
    /\ branchHead \in Hashes
    /\ \E h \in Hashes \cup {Null}, present \in SUBSET (RunTagNames \ {RollingTag}) :
         tagRefs = [t \in TagNames |-> IF t = RollingTag THEN h
                                       ELSE IF t \in present THEN TagCommit(t)
                                       ELSE Null]
    /\ releases \in {{}, {OldRelease(RollingTag)}}
    /\ InitRun

\* explicit-tag mode: auto_release_tag is not set, the run was triggered by a
\* ref, and any of the tags named exist at the commits they were pushed at
InitExplicit(names, refs) ==
    /\ githubToken \in BOOLEAN
    /\ isDryRun \in BOOLEAN
    /\ \E f \in Flags :
         actionArgs = [autoReleaseTag |-> Null, autoReleaseTitle |-> Null,
                       isDraft |-> f[1], isPreRelease |-> f[2]]
    /\ ghContextRef \in refs
    /\ branchHead = AllHashes[NumCommits]
    /\ \E present \in SUBSET names :
         tagRefs = [t \in TagNames |-> IF t \in present THEN TagCommit(t) ELSE Null]
    /\ releases \in {{}} \cup
         (IF getTagName(ghContextRef) \in names
          THEN {{OldRelease(getTagName(ghContextRef))}} ELSE {})
    /\ InitRun

Init == InitRolling \/ InitExplicit(RunTagNames, ExplicitRefs(RunTagNames))

----------------------------------------------------------------------------
(* The run *)

IsRolling == actionArgs.autoReleaseTag # Null

\* the tag whose ref and release the run reconciles
ReleaseTag == IF IsRolling THEN actionArgs.autoReleaseTag ELSE local.currReleaseTag
ReleaseName == IF IsRolling THEN actionArgs.autoReleaseTitle ELSE local.currReleaseTag

Goto(p, l) == pc' = p /\ local' = l /\ failure' = failure

\* an error thrown inside the try block of main.ts: core.setFailed(String(error))
Fail(message, l) == pc' = "failed" /\ local' = l /\ failure' = message

\* any awaited remote call may throw an error the code does not handle
Results == {"ok", "error"}

\* a start of the run that does not look at auto_release_title
MainWithoutTitleCheck ==
    /\ pc = "start"
    /\ IF ~githubToken THEN Fail("process.env.GITHUB_TOKEN is undefined", local)
       ELSE IF IsRolling THEN Goto("getHeadHash", local)
       ELSE LET currReleaseTag == getTagName(ghContextRef)
                l == [local EXCEPT !.currReleaseTag = currReleaseTag]
            IN  IF currReleaseTag = Null
                THEN Fail("Reference does not appear to be a tag", local)
                ELSE IF ~semverValid(currReleaseTag)
                THEN Fail("The currentTag does not appear to conform to semantic versioning", l)
                ELSE Goto("listTags", l)
    /\ UNCHANGED <<cfgVars, remoteVars, output, calls, histVars>>

\* main.ts, run, and the checks of runForAutoReleaseTag / runForExplicitTag /
\* getTagBeforeCurrentTag that precede the first remote call
Main ==
    /\ pc = "start"
    /\ IF ~githubToken THEN Fail("process.env.GITHUB_TOKEN is undefined", local)
       ELSE IF IsRolling
       THEN IF actionArgs.autoReleaseTitle = Null
            THEN Fail("auto_release_title is not set", local)
            ELSE Goto("getHeadHash", local)
       ELSE LET currReleaseTag == getTagName(ghContextRef)
                l == [local EXCEPT !.currReleaseTag = currReleaseTag]
            IN  IF currReleaseTag = Null
                THEN Fail("Reference does not appear to be a tag", local)
                ELSE IF ~semverValid(currReleaseTag)
                THEN Fail("The currentTag does not appear to conform to semantic versioning", l)
                ELSE Goto("listTags", l)
    /\ UNCHANGED <<cfgVars, remoteVars, output, calls, histVars>>

\* a head lookup whose failure does not stop the run
GetHeadHashIgnoresFailure ==
    /\ pc = "getHeadHash"
    /\ \E result \in Results :
         /\ calls' = Append(calls, Call("getRef", "heads/branch", NoReleaseId, result))
         /\ Goto("isTagExists",
                 [local EXCEPT !.headHash = IF result = "ok" THEN branchHead ELSE Null,
                               !.currReleaseTag = IF result = "ok" THEN branchHead ELSE Null,
                               !.prevReleaseTag = actionArgs.autoReleaseTag])
    /\ UNCHANGED <<cfgVars, remoteVars, output, histVars>>

\* a run that moves the rolling tag as soon as the head is known
GetHeadHashMovesTagFirst ==
    /\ pc = "getHeadHash"
    /\ \E result \in Results :
         /\ calls' = Append(calls, Call("getRef", "heads/branch", NoReleaseId, result))
         /\ IF result = "ok"
            THEN Goto(IF isDryRun THEN "isTagExists" ELSE "createOrUpdateTag",
                      [local EXCEPT !.headHash = branchHead,
                                    !.currReleaseTag = branchHead,
                                    !.prevReleaseTag = actionArgs.autoReleaseTag])
            ELSE Fail("getRef failed", local)
    /\ UNCHANGED <<cfgVars, remoteVars, output, histVars>>

\* getHeadHash: getRef heads/<branch>
GetHeadHash ==
    /\ pc = "getHeadHash"
    /\ \E result \in Results :
         /\ calls' = Append(calls, Call("getRef", "heads/branch", NoReleaseId, result))
         /\ IF result = "ok"
            THEN Goto("isTagExists",
                      [local EXCEPT !.headHash = branchHead,
                                    !.currReleaseTag = branchHead,
                                    !.prevReleaseTag = actionArgs.autoReleaseTag])
            ELSE Fail("getRef failed", local)
    /\ UNCHANGED <<cfgVars, remoteVars, output, histVars>>

Reverse(s) == [i \in 1..Len(s) |-> s[Len(s) + 1 - i]]

\* paginate(listTags): the names of the tags that exist, in the remote's order
ListedTags(reversed) ==
    LET names == SubSeq(AllTagNames, 1, NumTags)
        Exists(t) == tagRefs[t] # Null
    IN  SelectSeq(IF reversed THEN Reverse(names) ELSE names, Exists)

\* getTagBeforeCurrentTag from the listTags call on, and the "?? currReleaseTag"
\* of runForExplicitTag
ListTags ==
    /\ pc = "listTags"
    /\ \E result \in Results, reversed \in BOOLEAN :
         /\ calls' = Append(calls, Call("listTags", Null, NoReleaseId, result))
         /\ IF result = "ok"
            THEN LET tagBefore == getTagBeforeCurrentTag(ListedTags(reversed),
                                                         local.currReleaseTag)
                 IN  Goto("isTagExists",
                          [local EXCEPT !.tagBefore = tagBefore,
                                        !.prevReleaseTag =
                                            IF tagBefore # Null THEN tagBefore
                                            ELSE local.currReleaseTag])
            ELSE Fail("listTags failed", local)
    /\ UNCHANGED <<cfgVars, remoteVars, output, histVars>>

\* a lookup that reports every tag ref as not found
getTagHashNeverFound(tag) == Null

\* getTagHash: getRef tags/<name>; "Not Found" is caught and gives null
getTagHash(tag) == IF tag \in DOMAIN tagRefs THEN tagRefs[tag] ELSE Null

\* an isTagExists that does not catch "Not Found"
IsTagExistsNotCaught ==
    /\ pc = "isTagExists"
    /\ \E result \in Results :
         LET hash == getTagHash(local.prevReleaseTag)
             answer == IF result = "error" THEN "error"
                       ELSE IF hash = Null THEN "not_found" ELSE "ok"
         IN  /\ calls' = Append(calls, Call("getRef", local.prevReleaseTag, NoReleaseId, answer))
             /\ IF answer = "ok"
                THEN Goto("compareCommits", [local EXCEPT !.prevRelease = local.prevReleaseTag])
                ELSE Fail("getRef failed", local)
    /\ UNCHANGED <<cfgVars, remoteVars, output, histVars>>

\* the first step of getCommitsBetweenCommits: isTagExists(tags/<prevReleaseTag>)
IsTagExists ==
    /\ pc = "isTagExists"
    /\ \E result \in Results :
         LET hash == getTagHash(local.prevReleaseTag)
             answer == IF result = "error" THEN "error"
                       ELSE IF hash = Null THEN "not_found" ELSE "ok"
         IN  /\ calls' = Append(calls, Call("getRef", local.prevReleaseTag, NoReleaseId, answer))
             /\ IF result = "ok"
                THEN Goto("compareCommits",
                          [local EXCEPT !.prevRelease =
                               IF hash # Null THEN local.prevReleaseTag ELSE HEAD])
                ELSE Fail("getRef failed", local)
    /\ UNCHANGED <<cfgVars, remoteVars, output, histVars>>

\* a variant that reconciles the rolling tag in explicit-tag mode as well
AfterChangeLogAlwaysTag(l) ==
    LET done == [l EXCEPT !.changeLog = RenderChangeLog(l.parsedCommits)]
    IN  IF isDryRun
        THEN Goto("writeOutput",
                  [done EXCEPT !.releaseId = DryRunReleaseId, !.uploadUrl = EmptyUrl])
        ELSE Goto("deleteReleaseForTag", done)

\* the same without the dry-run returns
AfterChangeLogIgnoringDryRun(l) ==
    LET done == [l EXCEPT !.changeLog = RenderChangeLog(l.parsedCommits)]
    IN  IF IsRolling THEN Goto("deleteReleaseForTag", done)
        ELSE Goto("createOrUpdateRelease", done)

\* where the run goes once generateChangeLog has returned: in dry-run mode
\* deleteReleaseForTag, createOrUpdateTag and createOrUpdateRelease return at once
AfterChangeLog(l) ==
    LET done == [l EXCEPT !.changeLog = RenderChangeLog(l.parsedCommits)]
    IN  IF isDryRun
        THEN Goto("writeOutput",
                  [done EXCEPT !.releaseId = DryRunReleaseId, !.uploadUrl = EmptyUrl])
        ELSE IF IsRolling THEN Goto("deleteReleaseForTag", done)
        ELSE Goto("createOrUpdateRelease", done)

\* a loop that leaves the pull-request lookups out in dry-run mode
NextCommitSkipsLookupsWhenDry(l) ==
    LET rest == SkipMerges(l.commits)
    IN  IF rest = <<>> \/ isDryRun THEN AfterChangeLog([l EXCEPT !.commits = <<>>])
        ELSE Goto("listPullRequests", [l EXCEPT !.commits = rest])

\* the loop of getCommitsBetweenCommits up to its next remote call
NextCommit(l) ==
    LET rest == SkipMerges(l.commits)
    IN  IF rest = <<>> THEN AfterChangeLog([l EXCEPT !.commits = <<>>])
        ELSE Goto("listPullRequests", [l EXCEPT !.commits = rest])

\* compareCommits(base: prevRelease, head: currRelease)
CompareCommitsCall ==
    /\ pc = "compareCommits"
    /\ \E result \in Results :
         LET base == ResolveRef(local.prevRelease, tagRefs)
             head == ResolveRef(local.currReleaseTag, tagRefs)
             answer == IF result = "error" THEN "error"
                       ELSE IF base = Null \/ head = Null THEN "not_found" ELSE "ok"
         IN  /\ calls' = Append(calls, Call("compareCommits", local.prevRelease, NoReleaseId, answer))
             /\ IF answer = "ok"
                THEN NextCommit([local EXCEPT !.compareResult = CompareCommits(base, head),
                                              !.commits = CompareCommits(base, head)])
                ELSE Fail("compareCommits failed", local)
    /\ UNCHANGED <<cfgVars, remoteVars, output, histVars>>

\* a pull-request lookup that removes the release of the tag before it gives up
ListPullRequestsCleansUp ==
    /\ pc = "listPullRequests"
    /\ \E result \in Results :
         LET commit == Head(local.commits)
             parsed == [type |-> commit.type, scope |-> commit.scope,
                        subject |-> commit.subject, header |-> commit.header,
                        body |-> commit.body, footer |-> commit.footer,
                        merge |-> commit.merge, authorName |-> commit.authorName,
                        sha |-> commit.sha, pullRequests |-> PullRequestsOf(commit.sha)]
         IN  IF result = "ok"
             THEN /\ calls' = Append(calls, Call("listPullRequests", commit.sha,
                                                 NoReleaseId, result))
                  /\ NextCommit([local EXCEPT !.commits = Tail(local.commits),
                                              !.parsedCommits = Append(local.parsedCommits, parsed)])
                  /\ UNCHANGED remoteVars
             ELSE /\ calls' = calls
                             \o << Call("deleteRelease", ReleaseTag,
                                        ReleaseIdOf(ReleaseTag, releases), "ok"),
                                   Call("listPullRequests", commit.sha, NoReleaseId, result) >>
                  /\ releases' = releases \ ReleaseOf(ReleaseTag, releases)
                  /\ Fail("listPullRequestsAssociatedWithCommit failed", local)
                  /\ UNCHANGED <<branchHead, tagRefs, nextReleaseId>>
    /\ UNCHANGED <<cfgVars, output, histVars>>

\* a pull-request lookup that starts the range over when it fails
ListPullRequestsStartsOver ==
    /\ pc = "listPullRequests"
    /\ \E result \in Results :
         LET commit == Head(local.commits)
             parsed == [type |-> commit.type, scope |-> commit.scope,
                        subject |-> commit.subject, header |-> commit.header,
                        body |-> commit.body, footer |-> commit.footer,
                        merge |-> commit.merge, authorName |-> commit.authorName,
                        sha |-> commit.sha, pullRequests |-> PullRequestsOf(commit.sha)]
             IsLookup(call) == call.op \in {"getRef", "listTags"}
         IN  IF result = "ok"
             THEN /\ calls' = Append(calls, Call("listPullRequests", commit.sha,
                                                 NoReleaseId, result))
                  /\ NextCommit([local EXCEPT !.commits = Tail(local.commits),
                                              !.parsedCommits = Append(local.parsedCommits, parsed)])
             ELSE /\ calls' = SelectSeq(calls, IsLookup)
                  /\ Goto("compareCommits",
                          [local EXCEPT !.commits = <<>>, !.parsedCommits = <<>>,
                                        !.compareResult = <<>>])
    /\ UNCHANGED <<cfgVars, remoteVars, output, histVars>>

\* a pull-request lookup that is issued again after a failure
ListPullRequestsRetried ==
    /\ pc = "listPullRequests"
    /\ \E result \in Results :
         LET commit == Head(local.commits)
             parsed == [type |-> commit.type, scope |-> commit.scope,
                        subject |-> commit.subject, header |-> commit.header,
                        body |-> commit.body, footer |-> commit.footer,
                        merge |-> commit.merge, authorName |-> commit.authorName,
                        sha |-> commit.sha, pullRequests |-> PullRequestsOf(commit.sha)]
         IN  /\ calls' = Append(calls, Call("listPullRequests", commit.sha, NoReleaseId, result))
             /\ IF result = "ok"
                THEN NextCommit([local EXCEPT !.commits = Tail(local.commits),
                                              !.parsedCommits = Append(local.parsedCommits, parsed)])
                ELSE IF \E i \in 1..Len(calls) : calls[i].result = "error"
                THEN Fail("listPullRequestsAssociatedWithCommit failed", local)
                ELSE Goto("listPullRequests", local)
    /\ UNCHANGED <<cfgVars, remoteVars, output, histVars>>

\* listPullRequestsAssociatedWithCommit for the next commit that is no merge
ListPullRequests ==
    /\ pc = "listPullRequests"
    /\ \E result \in Results :
         LET commit == Head(local.commits)
             parsed == [type |-> commit.type, scope |-> commit.scope,
                        subject |-> commit.subject, header |-> commit.header,
                        body |-> commit.body, footer |-> commit.footer,
                        merge |-> commit.merge, authorName |-> commit.authorName,
                        sha |-> commit.sha, pullRequests |-> PullRequestsOf(commit.sha)]
         IN  /\ calls' = Append(calls, Call("listPullRequests", commit.sha, NoReleaseId, result))
             /\ IF result = "ok"
                THEN NextCommit([local EXCEPT !.commits = Tail(local.commits),
                                              !.parsedCommits = Append(local.parsedCommits, parsed)])
                ELSE Fail("listPullRequestsAssociatedWithCommit failed", local)
    /\ UNCHANGED <<cfgVars, remoteVars, output, histVars>>

----------------------------------------------------------------------------
(* Reconciliation: deleteReleaseForTag, createOrUpdateTag, createOrUpdateRelease *)

\* a deleteReleaseForTag that deletes the tag ref when it finds no release
DeleteReleaseForTagDeletesBareRef ==
    /\ pc = "deleteReleaseForTag"
    /\ \E result \in Results :
         LET releaseId == ReleaseIdOf(ReleaseTag, releases)
             answer == IF result = "error" THEN "error"
                       ELSE IF releaseId = NoReleaseId THEN "not_found" ELSE "ok"
         IN  /\ calls' = Append(calls, Call("getReleaseByTag", ReleaseTag, releaseId, answer))
             /\ IF result = "error" THEN Fail("getReleaseByTag failed", local)
                ELSE IF releaseId = NoReleaseId THEN Goto("deleteRef", local)
                ELSE Goto("deleteRelease", [local EXCEPT !.foundReleaseId = releaseId])
    /\ UNCHANGED <<cfgVars, remoteVars, output, histVars>>

\* a deleteReleaseForTag that looks the release up and deletes nothing
DeleteReleaseForTagKeepsRelease ==
    /\ pc = "deleteReleaseForTag"
    /\ \E result \in Results :
         LET releaseId == ReleaseIdOf(ReleaseTag, releases)
             answer == IF result = "error" THEN "error"
                       ELSE IF releaseId = NoReleaseId THEN "not_found" ELSE "ok"
         IN  /\ calls' = Append(calls, Call("getReleaseByTag", ReleaseTag, releaseId, answer))
             /\ IF result = "error" THEN Fail("getReleaseByTag failed", local)
                ELSE Goto("createOrUpdateTag", local)
    /\ UNCHANGED <<cfgVars, remoteVars, output, histVars>>

\* deleteReleaseForTag: getReleaseId(tag); without a release there is nothing to delete
DeleteReleaseForTag ==
    /\ pc = "deleteReleaseForTag"
    /\ \E result \in Results :
         LET releaseId == ReleaseIdOf(ReleaseTag, releases)
             answer == IF result = "error" THEN "error"
                       ELSE IF releaseId = NoReleaseId THEN "not_found" ELSE "ok"
         IN  /\ calls' = Append(calls, Call("getReleaseByTag", ReleaseTag, releaseId, answer))
             /\ IF result = "error" THEN Fail("getReleaseByTag failed", local)
                ELSE IF releaseId = NoReleaseId THEN Goto("createOrUpdateTag", local)
                ELSE Goto("deleteRelease", [local EXCEPT !.foundReleaseId = releaseId])
    /\ UNCHANGED <<cfgVars, remoteVars, output, histVars>>

\* a deleteReleaseForTag that deletes the release and leaves the tag ref
DeleteReleaseKeepsRef ==
    /\ pc = "deleteRelease"
    /\ \E result \in Results :
         LET found == {r \in releases : r.id = local.foundReleaseId}
             answer == IF result = "error" THEN "error"
                       ELSE IF found = {} THEN "not_found" ELSE "ok"
         IN  /\ calls' = Append(calls, Call("deleteRelease", ReleaseTag, local.foundReleaseId, answer))
             /\ IF answer = "ok"
                THEN /\ releases' = releases \ found
                     /\ Goto("createOrUpdateTag", local)
                ELSE /\ releases' = releases
                     /\ Fail("deleteRelease failed", local)
    /\ UNCHANGED <<cfgVars, branchHead, tagRefs, nextReleaseId, output, histVars>>

\* deleteReleaseForTag: deleteRelease(release_id)
DeleteRelease ==
    /\ pc = "deleteRelease"
    /\ \E result \in Results :
         LET found == {r \in releases : r.id = local.foundReleaseId}
             answer == IF result = "error" THEN "error"
                       ELSE IF found = {} THEN "not_found" ELSE "ok"
         IN  /\ calls' = Append(calls, Call("deleteRelease", ReleaseTag, local.foundReleaseId, answer))
             /\ IF answer = "ok"
                THEN /\ releases' = releases \ found
                     /\ Goto("deleteRef", local)
                ELSE /\ releases' = releases
                     /\ Fail("deleteRelease failed", local)
    /\ UNCHANGED <<cfgVars, branchHead, tagRefs, nextReleaseId, output, histVars>>

\* deleteReleaseForTag: deleteRef(tags/<tag>); the remote refuses a ref that does not exist
DeleteRef ==
    /\ pc = "deleteRef"
    /\ \E result \in Results :
         LET answer == IF result = "error" THEN "error"
                       ELSE IF tagRefs[ReleaseTag] = Null THEN "not_found" ELSE "ok"
         IN  /\ calls' = Append(calls, Call("deleteRef", ReleaseTag, NoReleaseId, answer))
             /\ IF answer = "ok"
                THEN /\ tagRefs' = [tagRefs EXCEPT ![ReleaseTag] = Null]
                     /\ Goto("createOrUpdateTag", local)
                ELSE /\ tagRefs' = tagRefs
                     /\ Fail("deleteRef failed", local)
    /\ UNCHANGED <<cfgVars, branchHead, releases, nextReleaseId, output, histVars>>

\* a createOrUpdateTag that leaves a tag that exists where it is
CreateOrUpdateTagKeepsExisting ==
    /\ pc = "createOrUpdateTag"
    /\ \E result \in Results :
         LET tagExists == getTagHash(ReleaseTag)
             answer == IF result = "error" THEN "error"
                       ELSE IF tagExists = Null THEN "not_found" ELSE "ok"
         IN  /\ calls' = Append(calls, Call("getRef", ReleaseTag, NoReleaseId, answer))
             /\ IF result = "error" THEN Fail("getRef failed", local)
                ELSE IF tagExists # Null
                THEN Goto("createOrUpdateRelease", [local EXCEPT !.tagExists = tagExists])
                ELSE Goto("createRef", [local EXCEPT !.tagExists = Null])
    /\ UNCHANGED <<cfgVars, remoteVars, output, histVars>>

\* createOrUpdateTag: getTagHash(tags/<tag>) and the branch on it
CreateOrUpdateTag ==
    /\ pc = "createOrUpdateTag"
    /\ \E result \in Results :
         LET tagExists == getTagHash(ReleaseTag)
             answer == IF result = "error" THEN "error"
                       ELSE IF tagExists = Null THEN "not_found" ELSE "ok"
         IN  /\ calls' = Append(calls, Call("getRef", ReleaseTag, NoReleaseId, answer))
             /\ IF result = "error" THEN Fail("getRef failed", local)
                ELSE IF tagExists # Null
                THEN Goto("updateRef", [local EXCEPT !.tagExists = tagExists])
                ELSE Goto("createRef", [local EXCEPT !.tagExists = Null])
    /\ UNCHANGED <<cfgVars, remoteVars, output, histVars>>

\* an updateRef without force: the remote keeps a ref that is no fast-forward
UpdateRefNotForced ==
    /\ pc = "updateRef"
    /\ \E result \in Results :
         LET answer == IF result = "error" THEN "error"
                       ELSE IF tagRefs[ReleaseTag] = Null THEN "not_found" ELSE "ok"
         IN  /\ calls' = Append(calls, Call("updateRef", ReleaseTag, NoReleaseId, answer))
             /\ IF answer = "ok"
                THEN /\ tagRefs' = [tagRefs EXCEPT ![ReleaseTag] =
                                        IF Pos(local.headHash) > Pos(tagRefs[ReleaseTag])
                                        THEN local.headHash ELSE tagRefs[ReleaseTag]]
                     /\ Goto("createOrUpdateRelease", local)
                ELSE /\ tagRefs' = tagRefs
                     /\ Fail("updateRef failed", local)
    /\ UNCHANGED <<cfgVars, branchHead, releases, nextReleaseId, output, histVars>>

\* an updateRef that sets the tag to whatever the branch points at by then
UpdateRefToBranch ==
    /\ pc = "updateRef"
    /\ \E result \in Results :
         LET answer == IF result = "error" THEN "error"
                       ELSE IF tagRefs[ReleaseTag] = Null THEN "not_found" ELSE "ok"
         IN  /\ calls' = Append(calls, Call("updateRef", ReleaseTag, NoReleaseId, answer))
             /\ IF answer = "ok"
                THEN /\ tagRefs' = [tagRefs EXCEPT ![ReleaseTag] = branchHead]
                     /\ Goto("createOrUpdateRelease", local)
                ELSE /\ tagRefs' = tagRefs
                     /\ Fail("updateRef failed", local)
    /\ UNCHANGED <<cfgVars, branchHead, releases, nextReleaseId, output, histVars>>

\* createOrUpdateTag: updateRef(tags/<tag>, sha: headHash, force: true)
UpdateRef ==
    /\ pc = "updateRef"
    /\ \E result \in Results :
         LET answer == IF result = "error" THEN "error"
                       ELSE IF tagRefs[ReleaseTag] = Null THEN "not_found" ELSE "ok"
         IN  /\ calls' = Append(calls, Call("updateRef", ReleaseTag, NoReleaseId, answer))
             /\ IF answer = "ok"
                THEN /\ tagRefs' = [tagRefs EXCEPT ![ReleaseTag] = local.headHash]
                     /\ Goto("createOrUpdateRelease", local)
                ELSE /\ tagRefs' = tagRefs
                     /\ Fail("updateRef failed", local)
    /\ UNCHANGED <<cfgVars, branchHead, releases, nextReleaseId, output, histVars>>

\* createOrUpdateTag: createRef(refs/tags/<tag>, sha: headHash)
CreateRef ==
    /\ pc = "createRef"
    /\ \E result \in Results :
         LET answer == IF result = "error" THEN "error"
                       ELSE IF tagRefs[ReleaseTag] # Null THEN "already_exists" ELSE "ok"
         IN  /\ calls' = Append(calls, Call("createRef", ReleaseTag, NoReleaseId, answer))
             /\ IF answer = "ok"
                THEN /\ tagRefs' = [tagRefs EXCEPT ![ReleaseTag] = local.headHash]
                     /\ Goto("createOrUpdateRelease", local)
                ELSE /\ tagRefs' = tagRefs
                     /\ Fail("createRef failed", local)
    /\ UNCHANGED <<cfgVars, branchHead, releases, nextReleaseId, output, histVars>>

\* a createOrUpdateRelease that creates whatever the lookup found
CreateOrUpdateReleaseAlwaysCreates ==
    /\ pc = "createOrUpdateRelease"
    /\ \E result \in Results :
         LET releaseId == ReleaseIdOf(ReleaseTag, releases)
             answer == IF result = "error" THEN "error"
                       ELSE IF releaseId = NoReleaseId THEN "not_found" ELSE "ok"
         IN  /\ calls' = Append(calls, Call("getReleaseByTag", ReleaseTag, releaseId, answer))
             /\ IF result = "error" THEN Fail("getReleaseByTag failed", local)
                ELSE Goto("createRelease", [local EXCEPT !.foundReleaseId = NoReleaseId])
    /\ UNCHANGED <<cfgVars, remoteVars, output, histVars>>

\* createOrUpdateRelease: getReleaseId(tag) and the branch on it
CreateOrUpdateRelease ==
    /\ pc = "createOrUpdateRelease"
    /\ \E result \in Results :
         LET releaseId == ReleaseIdOf(ReleaseTag, releases)
             answer == IF result = "error" THEN "error"
                       ELSE IF releaseId = NoReleaseId THEN "not_found" ELSE "ok"
         IN  /\ calls' = Append(calls, Call("getReleaseByTag", ReleaseTag, releaseId, answer))
             /\ IF result = "error" THEN Fail("getReleaseByTag failed", local)
                ELSE IF releaseId # NoReleaseId
                THEN Goto("updateRelease", [local EXCEPT !.foundReleaseId = releaseId])
                ELSE Goto("createRelease", [local EXCEPT !.foundReleaseId = NoReleaseId])
    /\ UNCHANGED <<cfgVars, remoteVars, output, histVars>>

\* a release config with the draft and prerelease flags exchanged
ReleaseConfigFlagsSwapped(id) ==
    [id |-> id, tag_name |-> ReleaseTag, name |-> ReleaseName, body |-> local.changeLog,
     draft |-> actionArgs.isPreRelease, prerelease |-> actionArgs.isDraft]

\* releaseConfig of createOrUpdateRelease, as the release record it produces
ReleaseConfig(id) ==
    [id |-> id, tag_name |-> ReleaseTag, name |-> ReleaseName, body |-> local.changeLog,
     draft |-> actionArgs.isDraft, prerelease |-> actionArgs.isPreRelease]

\* an updateRelease that moves the tag to the branch head as well
UpdateReleaseMovesTag ==
    /\ pc = "updateRelease"
    /\ \E result \in Results :
         LET found == {r \in releases : r.id = local.foundReleaseId}
             answer == IF result = "error" THEN "error"
                       ELSE IF found = {} THEN "not_found" ELSE "ok"
         IN  /\ calls' = Append(calls, Call("updateRelease", ReleaseTag, local.foundReleaseId, answer))
             /\ IF answer = "ok"
                THEN /\ releases' = (releases \ found) \cup {ReleaseConfig(local.foundReleaseId)}
                     /\ tagRefs' = [tagRefs EXCEPT ![ReleaseTag] = branchHead]
                     /\ Goto("writeOutput",
                             [local EXCEPT !.releaseId = local.foundReleaseId,
                                           !.uploadUrl = UploadUrl(local.foundReleaseId)])
                ELSE /\ releases' = releases
                     /\ tagRefs' = tagRefs
                     /\ Fail("updateRelease failed", local)
    /\ UNCHANGED <<cfgVars, branchHead, nextReleaseId, output, histVars>>

\* createOrUpdateRelease: updateRelease({...releaseConfig, release_id})
UpdateRelease ==
    /\ pc = "updateRelease"
    /\ \E result \in Results :
         LET found == {r \in releases : r.id = local.foundReleaseId}
             answer == IF result = "error" THEN "error"
                       ELSE IF found = {} THEN "not_found" ELSE "ok"
         IN  /\ calls' = Append(calls, Call("updateRelease", ReleaseTag, local.foundReleaseId, answer))
             /\ IF answer = "ok"
                THEN /\ releases' = (releases \ found) \cup {ReleaseConfig(local.foundReleaseId)}
                     /\ Goto("writeOutput",
                             [local EXCEPT !.releaseId = local.foundReleaseId,
                                           !.uploadUrl = UploadUrl(local.foundReleaseId)])
                ELSE /\ releases' = releases
                     /\ Fail("updateRelease failed", local)
    /\ UNCHANGED <<cfgVars, branchHead, tagRefs, nextReleaseId, output, histVars>>

\* createOrUpdateRelease: createRelease(releaseConfig); the remote refuses a
\* second release for a tag
CreateRelease ==
    /\ pc = "createRelease"
    /\ \E result \in Results :
         LET answer == IF result = "error" THEN "error"
                       ELSE IF ReleaseOf(ReleaseTag, releases) # {} THEN "already_exists"
                       ELSE "ok"
         IN  /\ calls' = Append(calls, Call("createRelease", ReleaseTag, nextReleaseId, answer))
             /\ IF answer = "ok"
                THEN /\ releases' = releases \cup {ReleaseConfig(nextReleaseId)}
                     /\ nextReleaseId' = nextReleaseId + 1
                     /\ Goto("writeOutput",
                             [local EXCEPT !.releaseId = nextReleaseId,
                                           !.uploadUrl = UploadUrl(nextReleaseId)])
                ELSE /\ releases' = releases
                     /\ nextReleaseId' = nextReleaseId
                     /\ Fail("createRelease failed", local)
    /\ UNCHANGED <<cfgVars, branchHead, tagRefs, output, histVars>>

\* a writeOutput that does not wait for the release
WriteOutputBeforeRelease ==
    /\ pc \in {"writeOutput", "createOrUpdateRelease"}
    /\ output' = [exported |-> TRUE,
                  tag |-> local.currReleaseTag,
                  prev_tag |-> local.prevReleaseTag,
                  release_id |-> local.releaseId,
                  upload_url |-> local.uploadUrl]
    /\ pc' = "done"
    /\ UNCHANGED <<cfgVars, remoteVars, local, failure, calls, histVars>>

\* run: writeOutput(output), after runFor... has returned
WriteOutput ==
    /\ pc = "writeOutput"
    /\ output' = [exported |-> TRUE,
                  tag |-> local.currReleaseTag,
                  prev_tag |-> local.prevReleaseTag,
                  release_id |-> local.releaseId,
                  upload_url |-> local.uploadUrl]
    /\ pc' = "done"
    /\ UNCHANGED <<cfgVars, remoteVars, local, failure, calls, histVars>>

\* the workflow is triggered again: a new process, with nothing kept but the remote
Rerun ==
    /\ pc \in {"done", "failed"}
    /\ runs < MaxRuns
    /\ runs' = runs + 1
    /\ startRemote' = [tagRefs |-> tagRefs, releases |-> releases]
    /\ prevRun' = [outcome |-> pc, output |-> output, calls |-> calls,
                    parsedCommits |-> local.parsedCommits, changeLog |-> local.changeLog]
    /\ pc' = "start"
    /\ local' = InitLocal
    /\ output' = NoOutput
    /\ failure' = Null
    /\ calls' = <<>>
    /\ UNCHANGED <<cfgVars, remoteVars>>

Next ==
    \/ Main
    \/ GetHeadHash
    \/ ListTags
    \/ IsTagExists
    \/ CompareCommitsCall
    \/ ListPullRequests
    \/ DeleteReleaseForTag
    \/ DeleteRelease
    \/ DeleteRef
    \/ CreateOrUpdateTag
    \/ UpdateRef
    \/ CreateRef
    \/ CreateOrUpdateRelease
    \/ UpdateRelease
    \/ CreateRelease
    \/ WriteOutput
    \/ Rerun

Spec == Init /\ [][Next]_vars

\* previous-tag resolution on its own: explicit-tag runs over every set of
\* remote tags, followed up to the end of getTagBeforeCurrentTag
InitPrevTag ==
    /\ InitExplicit(TagNames, {<<"refs", "tags", n>> : n \in TagNames})
    /\ githubToken
    /\ ~isDryRun
    /\ releases = {}
    /\ ~actionArgs.isDraft

NextPrevTag == Main \/ ListTags

SpecPrevTag == InitPrevTag /\ [][NextPrevTag]_vars

\* changelog generation on its own: the history of the remote is left open,
\* so the range comparison returns any sequence of commits

\* what CommitParser.parse returns for the commit messages of the open history
ParsedMessage(type, scope, subject, header, body, footer, merge, authorName) ==
    [type |-> type, scope |-> scope, subject |-> subject, header |-> header,
     body |-> body, footer |-> footer, merge |-> merge, authorName |-> authorName]

CommitMessages ==
    << ParsedMessage("feat", Null, "add X", "feat: add X", Null, Null, Null, "alice"),
       ParsedMessage("fix", "api", "correct Y", "fix(api): correct Y", Null, Null, Null, "bob"),
       ParsedMessage("feat", Null, "new API", "feat: new API",
                     "BREAKING CHANGE: drops node 16", Null, Null, "alice"),
       ParsedMessage("fix", Null, "close Z", "fix: close Z", "details",
                     "BREAKING CHANGES: drops node 16", Null, "carol"),
       ParsedMessage(Null, Null, Null, "update deps",
                     "BREAKING CHANGE: drops node 16", Null, Null, "bob"),
       ParsedMessage(Null, Null, Null, "tidy up", Null, Null, Null, "carol"),
       ParsedMessage("wip", Null, "try W", "wip: try W", Null, Null, Null, "alice"),
       ParsedMessage("docs", Null, "explain V", "docs: explain V",
                     "see BREAKING CHANGE: later", "breaking change: none", Null, "bob"),
       ParsedMessage("feat", Null, "merged work", "feat: merged work",
                     "BREAKING CHANGE: drops node 16", Null,
                     "Merge pull request #7 from dev", "carol"),
       ParsedMessage(Null, Null, Null, "Merge branch dev into master",
                     "BREAKING CHANGE: drops node 16", Null, Null, "alice") >>

\* the commits of a compare result: the k-th has the k-th hash
CommitsOf(messages) ==
    [k \in 1..Len(messages) |->
        [sha |-> AllHashes[k], authorName |-> CommitMessages[messages[k]].authorName,
         merge |-> CommitMessages[messages[k]].merge,
         type |-> CommitMessages[messages[k]].type,
         scope |-> CommitMessages[messages[k]].scope,
         subject |-> CommitMessages[messages[k]].subject,
         header |-> CommitMessages[messages[k]].header,
         body |-> CommitMessages[messages[k]].body,
         footer |-> CommitMessages[messages[k]].footer]]

CompareResults ==
    {CommitsOf(m) : m \in UNION {[1..n -> 1..Len(CommitMessages)] : n \in 0..MaxLogLen}}

\* compareCommits(base: prevRelease, head: currRelease) over an open history
CompareCommitsAny ==
    /\ pc = "compareCommits"
    /\ \E result \in Results, commits \in CompareResults :
         /\ commits # <<>> => commits[Len(commits)].sha = local.currReleaseTag
         /\ calls' = Append(calls, Call("compareCommits", local.prevRelease, NoReleaseId, result))
         /\ IF result = "ok"
            THEN NextCommit([local EXCEPT !.compareResult = commits, !.commits = commits])
            ELSE Fail("compareCommits failed", local)
    /\ UNCHANGED <<cfgVars, remoteVars, output, histVars>>

\* a first rolling-tag run that has resolved the head and found no rolling tag
InitChangeLog ==
    /\ githubToken = TRUE
    /\ isDryRun \in BOOLEAN
    /\ actionArgs = [autoReleaseTag |-> RollingTag, autoReleaseTitle |-> "Nightly Build",
                     isDraft |-> FALSE, isPreRelease |-> TRUE]
    /\ ghContextRef = <<"refs", "heads", "master">>
    /\ branchHead \in {AllHashes[n] : n \in 1..MaxLogLen}
    /\ tagRefs = [t \in TagNames |-> Null]
    /\ releases = {}
    /\ nextReleaseId = 2
    /\ pc = "compareCommits"
    /\ local = [InitLocal EXCEPT !.headHash = branchHead, !.currReleaseTag = branchHead,
                                 !.prevReleaseTag = RollingTag, !.prevRelease = HEAD]
    /\ output = NoOutput
    /\ failure = Null
    /\ calls = << Call("getRef", "heads/branch", NoReleaseId, "ok"),
                  Call("getRef", RollingTag, NoReleaseId, "not_found") >>
    /\ runs = 1
    /\ prevRun = NoPrevRun
    /\ startRemote = [tagRefs |-> tagRefs, releases |-> releases]

NextChangeLog == CompareCommitsAny \/ ListPullRequests

SpecChangeLog == InitChangeLog /\ [][NextChangeLog]_vars

\* breaking-change detection on its own: commits whose body and footer run
\* through the texts that carry, nearly carry or do not carry the marker
MarkerVariantTexts ==
    {"details", "BREAKING CHANGE: drops node 16", "BREAKING CHANGES: drops node 16",
     "see BREAKING CHANGE: later", "breaking change: none", "Breaking Change: x",
     "BREAKING CHANGE:\nx", "BREAKING CHANGE:  x", "BREAKING CHANGE:", "BREAKING CHANGE:x",
     "BREAKING CHANGE x", "BREAKING CHANGE : x", "BREAKING CHANGESS: x",
     "BREAKINGCHANGE: x", "BREAKING-CHANGE: x", " BREAKING CHANGE: x",
     "x\nBREAKING CHANGE: x", "BREAKING  CHANGE: x", "BREAKING\tCHANGES: x",
     "BREAKING\nCHANGE: x"}

TextMessages ==
    {ParsedMessage(Null, Null, Null, "update deps", body, Null, Null, "bob") :
         body \in MarkerVariantTexts}
    \cup {ParsedMessage("fix", Null, "close Z", "fix: close Z", Null, footer, Null, "carol") :
              footer \in {"BREAKING CHANGES: drops node 16", "BREAKING\tCHANGES: x",
                          "breaking change: none", "BREAKING CHANGE:",
                          "x\nBREAKING CHANGE: x"}}
    \cup {ParsedMessage(Null, Null, Null, "BREAKING CHANGE: drops node 16", Null, Null, Null,
                        "alice"),
          ParsedMessage("feat", Null, "BREAKING CHANGE: x", "feat: BREAKING CHANGE: x",
                        "details", "breaking change: none", Null, "alice"),
          ParsedMessage("feat", Null, "new API", "feat: new API",
                        "details", "BREAKING CHANGE: drops node 16", Null, "alice"),
          ParsedMessage("feat", Null, "new API", "feat: new API",
                        "BREAKING CHANGE:", "BREAKING\tCHANGES: x", Null, "alice")}

TextCommitsOf(messages) ==
    [k \in 1..Len(messages) |->
        [sha |-> AllHashes[k], authorName |-> messages[k].authorName,
         merge |-> messages[k].merge, type |-> messages[k].type,
         scope |-> messages[k].scope, subject |-> messages[k].subject,
         header |-> messages[k].header, body |-> messages[k].body,
         footer |-> messages[k].footer]]

TextCompareResults ==
    {TextCommitsOf(m) : m \in UNION {[1..n -> TextMessages] : n \in 0..MaxTextLogLen}}

\* compareCommits over a history of such commits
CompareCommitsTexts ==
    /\ pc = "compareCommits"
    /\ \E result \in Results, commits \in TextCompareResults :
         /\ commits # <<>> => commits[Len(commits)].sha = local.currReleaseTag
         /\ calls' = Append(calls, Call("compareCommits", local.prevRelease, NoReleaseId, result))
         /\ IF result = "ok"
            THEN NextCommit([local EXCEPT !.compareResult = commits, !.commits = commits])
            ELSE Fail("compareCommits failed", local)
    /\ UNCHANGED <<cfgVars, remoteVars, output, histVars>>

NextBreaking == CompareCommitsTexts \/ ListPullRequests

SpecBreaking == InitChangeLog /\ [][NextBreaking]_vars

\* a dry run followed by a real run: the workflow is triggered again without
\* DRY_RUN, on the remote the dry run has left
RerunForReal ==
    /\ pc = "done"
    /\ isDryRun
    /\ runs < MaxRuns
    /\ isDryRun' = FALSE
    /\ runs' = runs + 1
    /\ startRemote' = [tagRefs |-> tagRefs, releases |-> releases]
    /\ prevRun' = [outcome |-> pc, output |-> output, calls |-> calls,
                    parsedCommits |-> local.parsedCommits, changeLog |-> local.changeLog]
    /\ pc' = "start"
    /\ local' = InitLocal
    /\ output' = NoOutput
    /\ failure' = Null
    /\ calls' = <<>>
    /\ UNCHANGED <<githubToken, actionArgs, ghContextRef, remoteVars>>

NextDryRun ==
    \/ Main
    \/ GetHeadHash
    \/ ListTags
    \/ IsTagExists
    \/ CompareCommitsCall
    \/ ListPullRequests
    \/ DeleteReleaseForTag
    \/ DeleteRelease
    \/ DeleteRef
    \/ CreateOrUpdateTag
    \/ UpdateRef
    \/ CreateRef
    \/ CreateOrUpdateRelease
    \/ UpdateRelease
    \/ CreateRelease
    \/ WriteOutput
    \/ RerunForReal

SpecDryRun == Init /\ [][NextDryRun]_vars

\* runs beside another actor on the same repository (a second workflow run, a
\* user): between a lookup of the run and the call that rests on it, the other
\* actor does what the call was about to do

\* the tag is created by the other actor after createOrUpdateTag found none
ExternalCreateRef ==
    /\ pc = "createRef"
    /\ tagRefs[ReleaseTag] = Null
    /\ \E h \in Hashes : tagRefs' = [tagRefs EXCEPT ![ReleaseTag] = h]
    /\ UNCHANGED <<cfgVars, branchHead, releases, nextReleaseId, runVars, histVars>>

\* a release for the tag is created by the other actor after
\* createOrUpdateRelease found none
ExternalCreateRelease ==
    /\ pc = "createRelease"
    /\ ReleaseOf(ReleaseTag, releases) = {}
    /\ releases' = releases \cup
           {[id |-> nextReleaseId, tag_name |-> ReleaseTag, name |-> "other title",
             body |-> <<>>, draft |-> FALSE, prerelease |-> TRUE]}
    /\ nextReleaseId' = nextReleaseId + 1
    /\ UNCHANGED <<cfgVars, branchHead, tagRefs, runVars, histVars>>

\* the release deleteReleaseForTag found is deleted by the other actor
ExternalDeleteRelease ==
    /\ pc = "deleteRelease"
    /\ \E r \in releases : r.id = local.foundReleaseId
    /\ releases' = {r \in releases : r.id # local.foundReleaseId}
    /\ UNCHANGED <<cfgVars, branchHead, tagRefs, nextReleaseId, runVars, histVars>>

\* the tag ref is deleted by the other actor before deleteReleaseForTag deletes it
ExternalDeleteRef ==
    /\ pc = "deleteRef"
    /\ tagRefs[ReleaseTag] # Null
    /\ tagRefs' = [tagRefs EXCEPT ![ReleaseTag] = Null]
    /\ UNCHANGED <<cfgVars, branchHead, releases, nextReleaseId, runVars, histVars>>

NextConcurrent ==
    \/ Main
    \/ GetHeadHash
    \/ ListTags
    \/ IsTagExists
    \/ CompareCommitsCall
    \/ ListPullRequests
    \/ DeleteReleaseForTag
    \/ DeleteRelease
    \/ DeleteRef
    \/ CreateOrUpdateTag
    \/ UpdateRef
    \/ CreateRef
    \/ CreateOrUpdateRelease
    \/ UpdateRelease
    \/ CreateRelease
    \/ WriteOutput
    \/ Rerun
    \/ ExternalCreateRef
    \/ ExternalCreateRelease
    \/ ExternalDeleteRelease
    \/ ExternalDeleteRef

SpecConcurrent == Init /\ [][NextConcurrent]_vars

\* the check of the triggering ref on its own: explicit-tag runs started by
\* refs of every shape, up to their first remote call
TriggerRefs ==
    {<<"refs", "tags", n>> : n \in RunTagNames} \cup {<<"tags", n>> : n \in RunTagNames}
        \cup {<<"refs", "heads", "master">>, <<"heads", "master">>, <<"refs", "tags", Null>>,
              <<"tags", Null>>, <<"refs", "tags">>, <<"tags">>, <<"refs">>,
              <<"refs", "heads", "tags", "1.0.0">>, <<"refs", "refs", "tags", "1.0.0">>,
              <<"refs", "pull", "7", "merge">>, <<"refs", "remotes", "tags", "1.0.0">>,
              <<"1.0.0">>, <<"refs", "1.0.0">>, <<"refs", "Tags", "1.0.0">>,
              <<"refs", "tags", "release", "1.0.0">>, <<"tags", "refs", "tags", "1.0.0">>,
              <<"refs", "tags", Null, "1.0.0">>}

InitTriggerRef == InitExplicit(RunTagNames, TriggerRefs)

NextTriggerRef == Main \/ ListTags

SpecTriggerRef == InitTriggerRef /\ [][NextTriggerRef]_vars

\* one run on its own: the process is scheduled until it exits, and every
\* awaited remote call returns with a result or a failure
NextRun ==
    \/ Main
    \/ GetHeadHash
    \/ ListTags
    \/ IsTagExists
    \/ CompareCommitsCall
    \/ ListPullRequests
    \/ DeleteReleaseForTag
    \/ DeleteRelease
    \/ DeleteRef
    \/ CreateOrUpdateTag
    \/ UpdateRef
    \/ CreateRef
    \/ CreateOrUpdateRelease
    \/ UpdateRelease
    \/ CreateRelease
    \/ WriteOutput

\* the draft and prerelease flags are copied into the release and decide
\* nothing in a run: one value of each is kept; the tags other than the one
\* released only feed the search for the previous tag, which finds one or
\* none: either all of them exist or none does
InitRunToEnd ==
    /\ Init
    /\ ~actionArgs.isDraft
    /\ actionArgs.isPreRelease
    /\ LET own == IF actionArgs.autoReleaseTag # Null THEN actionArgs.autoReleaseTag
                  ELSE getTagName(ghContextRef)
           others == RunTagNames \ {own}
       IN  {t \in others : tagRefs[t] # Null} \in {{}, others}

SpecRunToEnd == InitRunToEnd /\ [][NextRun]_vars /\ WF_vars(NextRun)

\* runs during which the branch moves: somebody pushes the next commit to the
\* branch as soon as getHeadHash has returned, so that every later step of the
\* run finds the branch ahead of the hash it looked up
ExternalPush ==
    /\ pc = "isTagExists"
    /\ local.headHash # Null
    /\ branchHead = local.headHash
    /\ Pos(branchHead) < NumCommits
    /\ branchHead' = AllHashes[Pos(branchHead) + 1]
    /\ UNCHANGED <<cfgVars, tagRefs, releases, nextReleaseId, runVars, histVars>>

NextMovingBranch ==
    \/ Main
    \/ GetHeadHash
    \/ ListTags
    \/ IsTagExists
    \/ CompareCommitsCall
    \/ ListPullRequests
    \/ DeleteReleaseForTag
    \/ DeleteRelease
    \/ DeleteRef
    \/ CreateOrUpdateTag
    \/ UpdateRef
    \/ CreateRef
    \/ CreateOrUpdateRelease
    \/ UpdateRelease
    \/ CreateRelease
    \/ WriteOutput
    \/ Rerun
    \/ ExternalPush

SpecMovingBranch == Init /\ [][NextMovingBranch]_vars

----------------------------------------------------------------------------
(* Previous-tag resolution *)

\* precedence of the model's tag names under Semantic Versioning 2.0.0, stated
\* independently of the comparison above (0: not a version)
VersionRank(tag) ==
    CASE tag = "0.9.0" -> 1
      [] tag \in {"1.0.0", "1.0.0+build"} -> 2
      [] tag \in {"1.1.0", "v1.1.0"} -> 3
      [] tag = "2.0.0-alpha" -> 4
      [] tag = "2.0.0-rc.1" -> 5
      [] tag = "2.0.0" -> 6
      [] OTHER -> 0

PresentTags == {t \in TagNames : tagRefs[t] # Null}

\* the remote tags that are valid versions strictly below the current tag
Candidates ==
    {t \in PresentTags : VersionRank(t) > 0 /\ VersionRank(t) < VersionRank(local.currReleaseTag)}

\* getTagBeforeCurrentTag has returned (explicit-tag mode)
TagBeforeResolved == ~IsRolling /\ pc = "isTagExists"

\* C1: getTagBeforeCurrentTag returns a tag of the highest version among the
\* remote tags that are valid versions strictly below the current tag, and null
\* when there is none; it never returns a tag that is no valid version, the
\* current tag, or a tag whose version equals the current version.
C1_PreviousTagIsHighestBelow ==
    TagBeforeResolved =>
        /\ Candidates = {} => local.tagBefore = Null
        /\ Candidates # {} =>
             /\ local.tagBefore \in Candidates
             /\ \A t \in Candidates : VersionRank(t) <= VersionRank(local.tagBefore)
        /\ local.tagBefore # Null =>
             /\ VersionRank(local.tagBefore) > 0
             /\ local.tagBefore # local.currReleaseTag
             /\ VersionRank(local.tagBefore) # VersionRank(local.currReleaseTag)

\* a resolution among several candidates, with a tag that is no version and a
\* tag of the current tag's version on the remote
C1_Witness ==
    /\ TagBeforeResolved
    /\ Cardinality(Candidates) >= 2
    /\ \E t \in PresentTags : VersionRank(t) = 0
    /\ \E t \in PresentTags :
         t # local.currReleaseTag /\ VersionRank(t) = VersionRank(local.currReleaseTag)
    /\ local.tagBefore \in Candidates

\* the remote of the specification's example, the current tag being 2.0.0
ExampleTags ==
    /\ TagBeforeResolved
    /\ local.currReleaseTag = "2.0.0"
    /\ PresentTags = {"0.9.0", "1.0.0", "1.1.0", "2.0.0-rc.1"}

\* C2 as stated: with remote tags 0.9.0, 1.0.0, 1.1.0 and 2.0.0-rc.1 and the
\* current tag 2.0.0, the previous tag resolved is 1.1.0.
C2_ExampleResolvesTo110 == ExampleTags => local.tagBefore = "1.1.0"

\* C2 as amended: with those tags, the previous tag resolved is 2.0.0-rc.1 (a
\* pre-release of the current version precedes it, so it is the highest
\* version strictly below 2.0.0).
C2_ExampleResolvesToRc1 == ExampleTags => local.tagBefore = "2.0.0-rc.1"

C2_Witness == ExampleTags /\ local.tagBefore = "2.0.0-rc.1"

\* the range comparison of an explicit-tag run has its base
RangeBaseChosen == ~IsRolling /\ pc = "compareCommits"

\* C3: in explicit-tag mode, when no remote tag qualifies as previous, the
\* resolution returns "none" without failing the run, and the range of the run
\* is compared from the repository-start base.
C3_FirstReleaseComparesFromStart ==
    /\ (TagBeforeResolved /\ Candidates = {}) =>
           local.tagBefore = Null /\ failure = Null
    /\ (RangeBaseChosen /\ local.tagBefore = Null) => local.prevRelease = HEAD

----------------------------------------------------------------------------
(* Reconciliation of the tag and the release *)

LastCall == calls[Len(calls)]

CountCalls(log, op) == Cardinality({i \in 1..Len(log) : log[i].op = op})

OtherRefsUnchanged ==
    \A t \in TagNames : t # ReleaseTag => tagRefs'[t] = tagRefs[t]

\* C4: outside dry-run mode, createOrUpdateTag takes the create path exactly
\* when the tag ref is absent and the force-update path exactly when it is
\* present; either way the tag then exists under the same name and resolves to
\* the head hash, whatever it pointed at before, and no other ref is changed.
C4_CreateOrUpdateTagRoundTrip ==
    [][/\ (pc = "createOrUpdateTag" /\ pc' # "failed") =>
              /\ pc' = IF tagRefs[ReleaseTag] = Null THEN "createRef" ELSE "updateRef"
              /\ UNCHANGED tagRefs
       /\ (pc \in {"createRef", "updateRef"} /\ pc' # "failed") =>
              /\ pc = "createRef" <=> tagRefs[ReleaseTag] = Null
              /\ tagRefs'[ReleaseTag] = local.headHash
              /\ local.headHash # Null
              /\ DOMAIN tagRefs' = DOMAIN tagRefs
              /\ OtherRefsUnchanged
       /\ (~isDryRun /\ IsRolling /\ pc' = "createOrUpdateRelease") =>
              pc \in {"createRef", "updateRef"}
      ]_vars

\* an existing rolling tag was moved from another commit to the head, beside
\* another tag
C4_Witness ==
    /\ pc = "createOrUpdateRelease"
    /\ IsRolling
    /\ LastCall.op = "updateRef"
    /\ local.tagExists \notin {Null, local.headHash}
    /\ tagRefs[ReleaseTag] = local.headHash
    /\ \E t \in TagNames : t # ReleaseTag /\ tagRefs[t] # Null

\* two createOrUpdateRelease calls in a row: the previous invocation completed
\* one, and this invocation has changed nothing on the remote before its own
SecondReleaseCall ==
    /\ ~isDryRun
    /\ prevRun.outcome = "done"
    /\ \A i \in 1..Len(calls) :
         calls[i].op \in MutatingOps => (i = Len(calls) /\ pc \in {"writeOutput", "done"})
    /\ local.changeLog = prevRun.changeLog
    /\ local.currReleaseTag = prevRun.output.tag

\* C5: when createOrUpdateRelease runs twice in a row for the same tag with the
\* same title, body and flags and nothing else changes the remote in between,
\* the second call takes the update path and returns the release id of the first.
C5_ReleaseIdempotent ==
    SecondReleaseCall =>
        /\ pc # "createRelease"
        /\ pc \in {"writeOutput", "done"} =>
             /\ LastCall.op = "updateRelease"
             /\ CountCalls(calls, "createRelease") = 0
             /\ local.releaseId = prevRun.output.release_id

\* the second invocation completed its update of the release the first created
C5_Witness ==
    /\ SecondReleaseCall
    /\ pc = "done"
    /\ LastCall.op = "updateRelease"
    /\ output.release_id = prevRun.output.release_id
    /\ output.release_id = 2

MatchesConfig(r) ==
    /\ r.tag_name = ReleaseTag
    /\ r.name = ReleaseName
    /\ r.body = local.changeLog
    /\ r.draft = actionArgs.isDraft
    /\ r.prerelease = actionArgs.isPreRelease

\* C6: outside dry-run mode, createOrUpdateRelease issues exactly one
\* createRelease with the given title, body and flags when the lookup by tag
\* finds no release, and exactly one updateRelease of the found release with the
\* same fields and no createRelease when it finds one; it returns the id and
\* the upload url of the resulting release.
C6_ReleaseBranchesOnExistence ==
    [][/\ (pc = "createOrUpdateRelease" /\ pc' # "failed") =>
              /\ pc' = IF ReleaseOf(ReleaseTag, releases) = {} THEN "createRelease"
                       ELSE "updateRelease"
              /\ UNCHANGED releases
       /\ (pc = "createRelease" /\ pc' # "failed") =>
              /\ ReleaseOf(ReleaseTag, releases) = {}
              /\ \E r \in releases' :
                   /\ releases' = releases \cup {r}
                   /\ r \notin releases
                   /\ MatchesConfig(r)
                   /\ local'.releaseId = r.id
                   /\ local'.uploadUrl = UploadUrl(r.id)
              /\ CountCalls(calls', "createRelease") = 1
              /\ CountCalls(calls', "updateRelease") = 0
              /\ pc' = "writeOutput"
       /\ (pc = "updateRelease" /\ pc' # "failed") =>
              /\ \E old \in ReleaseOf(ReleaseTag, releases), r \in releases' :
                   /\ releases' = (releases \ {old}) \cup {r}
                   /\ r.id = old.id
                   /\ MatchesConfig(r)
                   /\ local'.releaseId = r.id
                   /\ local'.uploadUrl = UploadUrl(r.id)
              /\ CountCalls(calls', "updateRelease") = 1
              /\ CountCalls(calls', "createRelease") = 0
              /\ pc' = "writeOutput"
       /\ (~isDryRun /\ pc' = "writeOutput") => pc \in {"createRelease", "updateRelease"}
      ]_vars

\* an existing release was updated in place with new fields
C6_Witness ==
    /\ pc = "writeOutput"
    /\ LastCall.op = "updateRelease"
    /\ local.releaseId = 1
    /\ local.changeLog # <<>>
    /\ \E r \in releases : r.id = 1 /\ MatchesConfig(r) /\ r.name # "old title"

----------------------------------------------------------------------------
(* Dry run, delete-before-recreate, the result of a run *)

\* C7: with the dry-run flag set a run issues no mutating remote call, the
\* remote tags and releases stay as they are, and the outputs it exports carry
\* the release id -1 and the empty upload url.
C7_DryRunMutatesNothing ==
    [][isDryRun =>
          /\ UNCHANGED remoteVars
          /\ \A i \in 1..Len(calls') : calls'[i].op \notin MutatingOps
          /\ output'.exported =>
               /\ output'.release_id = DryRunReleaseId
               /\ output'.upload_url = EmptyUrl
      ]_vars

\* a dry run in rolling-tag mode completed beside a release and a tag that a
\* real run would have replaced
C7_Witness ==
    /\ isDryRun
    /\ IsRolling
    /\ pc = "done"
    /\ output.exported
    /\ output.release_id = DryRunReleaseId
    /\ ReleaseOf(RollingTag, releases) = {OldRelease(RollingTag)}
    /\ tagRefs[RollingTag] \notin {Null, branchHead}
    /\ local.changeLog # <<>>

\* a delete call is the next call after the call it depends on
DeleteCallsInOrder(log) ==
    \A i \in 1..Len(log) :
        /\ log[i].op = "deleteRelease" =>
             /\ i > 1
             /\ log[i - 1].op = "getReleaseByTag"
             /\ log[i - 1].result = "ok"
             /\ log[i - 1].id = log[i].id
        /\ log[i].op = "deleteRef" =>
             /\ i > 1
             /\ log[i - 1].op = "deleteRelease"
             /\ log[i - 1].result = "ok"

\* C8: in rolling-tag mode (outside dry-run), when the lookup finds a release
\* for the rolling tag the release is deleted first and the tag ref after it;
\* when the lookup reports not found no delete call is issued and the run goes
\* on without error; any other error of the lookup aborts the run.
C8_DeleteBeforeRecreate ==
    [][/\ pc = "deleteReleaseForTag" =>
              /\ IsRolling /\ ~isDryRun
              /\ UNCHANGED remoteVars
              /\ calls'[Len(calls')].op = "getReleaseByTag"
              /\ calls'[Len(calls')].result = "ok" =>
                   /\ ReleaseOf(ReleaseTag, releases) # {}
                   /\ pc' = "deleteRelease"
              /\ calls'[Len(calls')].result = "not_found" =>
                   /\ ReleaseOf(ReleaseTag, releases) = {}
                   /\ pc' = "createOrUpdateTag"
                   /\ failure' = Null
              /\ calls'[Len(calls')].result = "error" => pc' = "failed"
       /\ (pc = "deleteRelease" /\ pc' # "failed") =>
              /\ pc' = "deleteRef"
              /\ ReleaseOf(ReleaseTag, releases') = {}
              /\ UNCHANGED tagRefs
       /\ (pc = "deleteRef" /\ pc' # "failed") =>
              /\ pc' = "createOrUpdateTag"
              /\ ReleaseOf(ReleaseTag, releases) = {}
              /\ tagRefs'[ReleaseTag] = Null
              /\ OtherRefsUnchanged
       /\ DeleteCallsInOrder(calls')
       /\ (pc' = "createOrUpdateTag" /\ calls'[Len(calls')].result = "not_found") =>
              /\ CountCalls(calls', "deleteRelease") = 0
              /\ CountCalls(calls', "deleteRef") = 0
      ]_vars

\* a found release was deleted, and the tag ref after it
C8_Witness ==
    /\ pc = "createOrUpdateTag"
    /\ Len(calls) >= 3
    /\ calls[Len(calls) - 2].op = "getReleaseByTag"
    /\ calls[Len(calls) - 2].result = "ok"
    /\ calls[Len(calls) - 1].op = "deleteRelease"
    /\ calls[Len(calls) - 1].result = "ok"
    /\ LastCall.op = "deleteRef"
    /\ LastCall.result = "ok"
    /\ releases = {}
    /\ tagRefs[RollingTag] = Null

\* C9: after a successful run in rolling-tag mode outside dry-run, the rolling
\* tag exists and points at the branch head the run resolved, and exactly one
\* release exists for the rolling tag, with the configured title, the changelog
\* of this run as body and the configured draft and prerelease flags.
C9_RollingRunReplacesTagAndRelease ==
    (pc = "done" /\ IsRolling /\ ~isDryRun) =>
        /\ local.headHash = branchHead
        /\ tagRefs[RollingTag] = local.headHash
        /\ Cardinality(ReleaseOf(RollingTag, releases)) = 1
        /\ \A r \in ReleaseOf(RollingTag, releases) :
             /\ r.name = actionArgs.autoReleaseTitle
             /\ r.body = local.changeLog
             /\ r.draft = actionArgs.isDraft
             /\ r.prerelease = actionArgs.isPreRelease

\* a run that found the tag at another commit and an old release, and replaced both
C9_Witness ==
    /\ pc = "done"
    /\ IsRolling
    /\ ~isDryRun
    /\ CountCalls(calls, "deleteRelease") = 1
    /\ CountCalls(calls, "createRef") = 1
    /\ local.changeLog # <<>>
    /\ actionArgs.isDraft
    /\ ReleaseOf(RollingTag, releases) # {OldRelease(RollingTag)}
    /\ tagRefs[RollingTag] = branchHead

\* every stage of the run has completed
AllStagesCompleted ==
    /\ pc = "done"
    /\ failure = Null
    /\ \E i \in 1..Len(calls) : calls[i].op = "compareCommits" /\ calls[i].result = "ok"
    /\ \A i \in 1..Len(calls) : calls[i].result \in {"ok", "not_found"}
    /\ ~isDryRun =>
         /\ LastCall.op \in {"createRelease", "updateRelease"}
         /\ ReleaseIdOf(ReleaseTag, releases) = output.release_id
         /\ IsRolling => tagRefs[RollingTag] = local.headHash

\* C10: the four outputs are exported only after every stage of the run,
\* release create-or-update included, has completed; a run that fails exports
\* none of them and reports the failure.
C10_NoPartialOutput ==
    /\ output.exported => AllStagesCompleted
    /\ pc = "failed" => ~output.exported /\ failure # Null
    /\ failure # Null => pc = "failed"

\* a run that failed after it had changed the remote, without any output
C10_Witness ==
    /\ pc = "failed"
    /\ failure # Null
    /\ ~output.exported
    /\ \E i \in 1..Len(calls) : calls[i].op \in MutatingOps /\ calls[i].result = "ok"

----------------------------------------------------------------------------
(* The outputs of a run *)

\* C11: on every successful run the tag output names the release tag the run
\* created or updated the release for (the rolling tag in rolling-tag mode, the
\* pushed tag in explicit-tag mode), and the prev_tag output names the release
\* reference the run took its range from.
C11_TagOutputsNameReleaseTags ==
    (pc = "done" /\ output.exported) =>
        /\ output.tag = ReleaseTag
        /\ output.prev_tag = local.prevReleaseTag

----------------------------------------------------------------------------
(* The order of the stages of a run *)

HeadStage == {"getHeadHash"}
TagsStage == {"listTags"}
ChangeLogStage == {"isTagExists", "compareCommits", "listPullRequests"}
RollingTagStage ==
    {"deleteReleaseForTag", "deleteRelease", "deleteRef", "createOrUpdateTag",
     "updateRef", "createRef"}
ReleaseStage == {"createOrUpdateRelease", "updateRelease", "createRelease"}
OutputStage == {"writeOutput"}

\* the place of a position of the run in the order of the stages
StageRank(p) ==
    CASE p = "start" -> 0
      [] p \in HeadStage -> 1
      [] p \in TagsStage -> 2
      [] p \in ChangeLogStage -> 3
      [] p \in RollingTagStage -> 4
      [] p \in ReleaseStage -> 5
      [] p \in OutputStage -> 6
      [] OTHER -> 7

HasCall(log, op, ref, result) ==
    \E i \in 1..Len(log) : log[i].op = op /\ log[i].ref = ref /\ log[i].result = result

\* what the stages before the position p have left behind once they completed
EarlierStagesCompleted(p, l, log, refs) ==
    /\ StageRank(p) \in 2..6 /\ IsRolling =>
         l.headHash = branchHead /\ HasCall(log, "getRef", "heads/branch", "ok")
    /\ StageRank(p) \in 3..6 /\ ~IsRolling =>
         HasCall(log, "listTags", Null, "ok") /\ l.prevReleaseTag # Null
    /\ StageRank(p) \in 4..6 =>
         /\ \E i \in 1..Len(log) : log[i].op = "compareCommits" /\ log[i].result = "ok"
         /\ l.commits = <<>>
         /\ l.changeLog = RenderChangeLog(l.parsedCommits)
    /\ StageRank(p) \in 5..6 /\ IsRolling /\ ~isDryRun =>
         /\ refs[RollingTag] = l.headHash
         /\ \E i \in 1..Len(log) :
              log[i].op \in {"createRef", "updateRef"} /\ log[i].result = "ok"
    /\ StageRank(p) = 6 /\ ~isDryRun =>
         /\ log[Len(log)].op \in {"createRelease", "updateRelease"}
         /\ log[Len(log)].result = "ok"

----------------------------------------------------------------------------
(* The head lookup *)

IsHeadLookup(call) == call.op = "getRef" /\ call.ref = "heads/branch"

----------------------------------------------------------------------------
(* The sections of the changelog *)

\* generateChangeLog has returned
ChangeLogBuilt == StageRank(pc) \in 4..6

\* the texts of the model that start with the breaking-change marker
MarkerTexts == {"BREAKING CHANGE: drops node 16", "BREAKING CHANGES: drops node 16"}
HasBreakingMarker(commit) == commit.body \in MarkerTexts \/ commit.footer \in MarkerTexts

\* the eleven categories and the titles of their sections
CategoryLabel(type) ==
    CASE type = "feat" -> "Features"
      [] type = "fix" -> "Bug Fixes"
      [] type = "docs" -> "Documentation"
      [] type = "style" -> "Styles"
      [] type = "refactor" -> "Code Refactoring"
      [] type = "perf" -> "Performance Improvements"
      [] type = "test" -> "Tests"
      [] type = "build" -> "Builds"
      [] type = "ci" -> "Continuous Integration"
      [] type = "chore" -> "Chores"
      [] type = "revert" -> "Reverts"
      [] OTHER -> Null

HasCategory(commit) == CategoryLabel(commit.type) # Null

\* the titles of the sections of a document that list the commit
SectionsWith(changeLog, sha) ==
    {changeLog[i].label : i \in
        {j \in 1..Len(changeLog) :
            \E k \in 1..Len(changeLog[j].entries) :
                changeLog[j].entries[k].url = <<"html_url", sha>>}}

\* C14: a commit given to the rendering whose body or footer starts with the
\* breaking-change marker is listed in the Breaking Changes section (and a
\* commit without the marker is not) and, when it carries one of the eleven
\* categories, in the section of that category as well.
C14_BreakingListedInBothSections ==
    ChangeLogBuilt =>
        \A i \in 1..Len(local.parsedCommits) :
            LET commit == local.parsedCommits[i]
                listed == SectionsWith(local.changeLog, commit.sha)
            IN  /\ HasBreakingMarker(commit) <=> "Breaking Changes" \in listed
                /\ HasCategory(commit) => CategoryLabel(commit.type) \in listed

\* a fix whose footer has the marker is listed under Breaking Changes and
\* under Bug Fixes
C14_Witness ==
    /\ ChangeLogBuilt
    /\ \E i \in 1..Len(local.parsedCommits) :
         /\ local.parsedCommits[i].type = "fix"
         /\ local.parsedCommits[i].footer \in MarkerTexts
         /\ SectionsWith(local.changeLog, local.parsedCommits[i].sha) =
                {"Breaking Changes", "Bug Fixes"}

\* C15 as stated: a commit with no category, or with a category key that is
\* not one of the eleven, is listed in the Commits section and in no other
\* section of the document.
C15_UncategorisedOnlyInCommits ==
    ChangeLogBuilt =>
        \A i \in 1..Len(local.parsedCommits) :
            ~HasCategory(local.parsedCommits[i]) =>
                SectionsWith(local.changeLog, local.parsedCommits[i].sha) = {"Commits"}

\* C15 as amended: such a commit is listed in the Commits section and in no
\* category section; it is listed in the Breaking Changes section as well
\* exactly when its body or footer starts with the breaking-change marker.
C15_UncategorisedInCommitsAndBreaking ==
    ChangeLogBuilt =>
        \A i \in 1..Len(local.parsedCommits) :
            LET commit == local.parsedCommits[i]
            IN  /\ ~HasCategory(commit) =>
                       SectionsWith(local.changeLog, commit.sha) =
                           IF HasBreakingMarker(commit)
                           THEN {"Commits", "Breaking Changes"} ELSE {"Commits"}
                /\ HasCategory(commit) =>
                       "Commits" \notin SectionsWith(local.changeLog, commit.sha)

\* a commit of a type outside the eleven and a commit without a type that has
\* the marker were rendered
C15_Witness ==
    /\ ChangeLogBuilt
    /\ \E i, j \in 1..Len(local.parsedCommits) :
         /\ local.parsedCommits[i].type = "wip"
         /\ SectionsWith(local.changeLog, local.parsedCommits[i].sha) = {"Commits"}
         /\ local.parsedCommits[j].type = Null
         /\ SectionsWith(local.changeLog, local.parsedCommits[j].sha) =
                {"Commits", "Breaking Changes"}

\* the headers of the model that begin with the word Merge
MergeHeaders == {"Merge pull request #7 from dev", "Merge branch dev into master"}
ReportedAsMerge(commit) == commit.merge # Null \/ commit.header \in MergeHeaders

\* C16: a commit of the compared range for which the parser reports a merge
\* field, or whose header begins with the word Merge, is discarded when the
\* range is fetched: it is not among the parsed commits, no pull-request lookup
\* is made for it, and no section of the document lists it, whatever its
\* category or body.
C16_MergeCommitsDiscarded ==
    \A i \in 1..Len(local.compareResult) :
        LET commit == local.compareResult[i]
        IN  ReportedAsMerge(commit) =>
                /\ \A k \in 1..Len(local.parsedCommits) :
                       local.parsedCommits[k].sha # commit.sha
                /\ \A k \in 1..Len(calls) :
                       calls[k].op = "listPullRequests" => calls[k].ref # commit.sha
                /\ SectionsWith(local.changeLog, commit.sha) = {}

\* a range with a breaking feat that has a merge field, a commit whose header
\* begins with Merge, and a commit that is no merge was rendered
C16_Witness ==
    /\ ChangeLogBuilt
    /\ \E i, j, k \in 1..Len(local.compareResult) :
         /\ local.compareResult[i].merge # Null
         /\ local.compareResult[i].type = "feat"
         /\ HasBreakingMarker(local.compareResult[i])
         /\ local.compareResult[j].merge = Null
         /\ local.compareResult[j].header \in MergeHeaders
         /\ ~ReportedAsMerge(local.compareResult[k])
         /\ SectionsWith(local.changeLog, local.compareResult[k].sha) # {}
    /\ Len(local.parsedCommits) = 1

\* the place of a section title in the fixed order of the sections
SectionIndex(label) ==
    CASE label = "Breaking Changes" -> 1
      [] label = "Features" -> 2
      [] label = "Bug Fixes" -> 3
      [] label = "Documentation" -> 4
      [] label = "Styles" -> 5
      [] label = "Code Refactoring" -> 6
      [] label = "Performance Improvements" -> 7
      [] label = "Tests" -> 8
      [] label = "Builds" -> 9
      [] label = "Continuous Integration" -> 10
      [] label = "Chores" -> 11
      [] label = "Reverts" -> 12
      [] label = "Commits" -> 13
      [] OTHER -> 0

\* the place of a commit in the compare result (its k-th commit has the k-th hash)
PlaceOf(entry) == CHOOSE k \in 1..Len(AllHashes) : entry.url = <<"html_url", AllHashes[k]>>

\* the titles of the sections that some rendered commit belongs to
SectionsDue(parsedCommits) ==
    {"Breaking Changes" : i \in {k \in 1..Len(parsedCommits) : HasBreakingMarker(parsedCommits[k])}}
        \cup {CategoryLabel(parsedCommits[i].type) :
                i \in {k \in 1..Len(parsedCommits) : HasCategory(parsedCommits[k])}}
        \cup {"Commits" : i \in {k \in 1..Len(parsedCommits) : ~HasCategory(parsedCommits[k])}}

\* C17: whatever the order of the commits, the sections of the document appear
\* in the fixed order Breaking Changes, Features, Bug Fixes, Documentation,
\* Styles, Code Refactoring, Performance Improvements, Tests, Builds,
\* Continuous Integration, Chores, Reverts, Commits; a section is present
\* exactly when a commit belongs to it and is never empty; and the entries of
\* a section keep the order in which the range comparison returned the commits.
C17_SectionsInFixedOrder ==
    ChangeLogBuilt =>
        LET changeLog == local.changeLog
        IN  /\ \A i \in 1..Len(changeLog) : SectionIndex(changeLog[i].label) > 0
            /\ \A i \in 1..(Len(changeLog) - 1) :
                   SectionIndex(changeLog[i].label) < SectionIndex(changeLog[i + 1].label)
            /\ \A i \in 1..Len(changeLog) : Len(changeLog[i].entries) > 0
            /\ {changeLog[i].label : i \in 1..Len(changeLog)} = SectionsDue(local.parsedCommits)
            /\ \A i \in 1..Len(changeLog) :
                   \A k \in 1..(Len(changeLog[i].entries) - 1) :
                       PlaceOf(changeLog[i].entries[k]) < PlaceOf(changeLog[i].entries[k + 1])

\* commits returned in an order that is not the order of their sections, two
\* of them in one section
C17_Witness ==
    /\ ChangeLogBuilt
    /\ Len(local.changeLog) >= 3
    /\ local.changeLog[Len(local.changeLog)].label = "Commits"
    /\ PlaceOf(local.changeLog[Len(local.changeLog)].entries[1]) = 1
    /\ local.changeLog[1].label = "Breaking Changes"
    /\ \E i \in 1..Len(local.changeLog) :
         /\ Len(local.changeLog[i].entries) = 2
         /\ PlaceOf(local.changeLog[i].entries[1]) = 2

\* this run and the run before it have both rendered their changelog
RenderedTwice == prevRun.outcome = "done" /\ (ChangeLogBuilt \/ pc = "done")

----------------------------------------------------------------------------
(* Errors of the range resolution *)

\* an explicit-tag run for a pushed tag that is no valid version
InvalidCurrentTag ==
    /\ ~IsRolling
    /\ getTagName(ghContextRef) # Null
    /\ VersionRank(getTagName(ghContextRef)) = 0

\* C19: in explicit-tag mode, when the current tag is no valid version, the
\* run fails with an error before its first remote call: no previous tag is
\* resolved, no mutating remote call is issued and no outputs are exported.
C19_InvalidCurrentTagFails ==
    (InvalidCurrentTag /\ pc # "start") =>
        /\ pc = "failed"
        /\ failure # Null
        /\ githubToken =>
             failure = "The currentTag does not appear to conform to semantic versioning"
        /\ calls = <<>>
        /\ local.tagBefore = Null
        /\ local.prevReleaseTag = Null
        /\ ~output.exported

\* a run for the pushed tag "nightly" failed beside a remote tag that is a version
C19_Witness ==
    /\ InvalidCurrentTag
    /\ githubToken
    /\ ~isDryRun
    /\ pc = "failed"
    /\ failure = "The currentTag does not appear to conform to semantic versioning"
    /\ local.currReleaseTag = RollingTag
    /\ calls = <<>>
    /\ \E t \in PresentTags : VersionRank(t) > 0

\* C20: when the lookup of the previous tag's ref reports not found, the range
\* is compared from the base HEAD and the run continues; when the ref exists
\* the range is compared from the previous tag; any other failure of the
\* lookup, and any failure of the range comparison, aborts the run.
C20_RangeFallsBackOnMissingBase ==
    [][/\ pc = "isTagExists" =>
              LET lookup == calls'[Len(calls')]
              IN  /\ lookup.op = "getRef"
                  /\ lookup.ref = local.prevReleaseTag
                  /\ lookup.result = "not_found" =>
                       /\ tagRefs[local.prevReleaseTag] = Null
                       /\ pc' = "compareCommits"
                       /\ local'.prevRelease = HEAD
                       /\ failure' = Null
                  /\ lookup.result = "ok" =>
                       /\ tagRefs[local.prevReleaseTag] # Null
                       /\ pc' = "compareCommits"
                       /\ local'.prevRelease = local.prevReleaseTag
                  /\ lookup.result = "error" => pc' = "failed" /\ failure' # Null
                  /\ lookup.result \in {"not_found", "ok", "error"}
       /\ pc = "compareCommits" =>
              LET compare == calls'[Len(calls')]
              IN  /\ compare.op = "compareCommits"
                  /\ compare.ref = local.prevRelease
                  /\ compare.result # "ok" <=> pc' = "failed"
                  /\ pc' = "failed" => failure' # Null
       /\ (pc = "isTagExists" \/ pc = "compareCommits") => UNCHANGED remoteVars
      ]_vars

\* the previous tag's ref was not found, the range was compared from HEAD and
\* the run went on to render commits
C20_Witness ==
    /\ pc = "done"
    /\ local.prevRelease = HEAD
    /\ local.parsedCommits # <<>>
    /\ \E i \in 1..(Len(calls) - 1) :
         /\ calls[i].op = "getRef"
         /\ calls[i].ref = local.prevReleaseTag
         /\ calls[i].result = "not_found"
         /\ calls[i + 1].op = "compareCommits"
         /\ calls[i + 1].ref = HEAD
         /\ calls[i + 1].result = "ok"

----------------------------------------------------------------------------
(* Conflicts with another actor *)

\* the answer of the remote to the call this step has issued
Answered(op, result) ==
    /\ Len(calls') = Len(calls) + 1
    /\ calls'[Len(calls')].op = op
    /\ calls'[Len(calls')].result = result

\* C21: when the createRef call for the tag reports "already exists" (the ref
\* appeared between the existence check and the create), createOrUpdateTag
\* goes on to the force update of the tag instead of aborting the run.
C21_CreateRefConflictSwitchesToUpdate ==
    [][(pc = "createRef" /\ Answered("createRef", "already_exists")) =>
           (pc' = "updateRef" /\ failure' = Null)
      ]_vars

\* C22: when the createRelease call reports that a release already exists for
\* the tag, createOrUpdateRelease fetches the existing release by tag and
\* updates it in place instead of aborting the run.
C22_CreateReleaseConflictSwitchesToUpdate ==
    [][(pc = "createRelease" /\ Answered("createRelease", "already_exists")) =>
           (pc' \in {"createOrUpdateRelease", "updateRelease"} /\ failure' = Null)
      ]_vars

\* C23: during delete-before-recreate, a "not found" answer to the
\* deleteRelease call or to the deleteRef call is tolerated: the run goes on to
\* create the tag and the release instead of aborting.
C23_DeleteNotFoundTolerated ==
    [][/\ (pc = "deleteRelease" /\ Answered("deleteRelease", "not_found")) =>
              (pc' \in {"deleteRef", "createOrUpdateTag"} /\ failure' = Null)
       /\ (pc = "deleteRef" /\ Answered("deleteRef", "not_found")) =>
              (pc' = "createOrUpdateTag" /\ failure' = Null)
      ]_vars

----------------------------------------------------------------------------
(* Failures *)

\* the credential is missing, or the rolling title is missing in rolling-tag mode
ConfigurationError ==
    ~githubToken \/ (IsRolling /\ actionArgs.autoReleaseTitle = Null)

\* C24: when the credential is missing, or rolling-tag mode is active and the
\* rolling title is missing, the run fails without any remote call, read or
\* write, and without exporting outputs.
C24_ConfigurationErrorsAreFatal ==
    (ConfigurationError /\ pc # "start") =>
        /\ pc = "failed"
        /\ failure = IF ~githubToken THEN "process.env.GITHUB_TOKEN is undefined"
                     ELSE "auto_release_title is not set"
        /\ calls = <<>>
        /\ ~output.exported
        /\ local = InitLocal

\* a rolling-tag run without a title failed beside the release and the tag of
\* an earlier run
C24_Witness ==
    /\ githubToken
    /\ IsRolling
    /\ actionArgs.autoReleaseTitle = Null
    /\ ~isDryRun
    /\ pc = "failed"
    /\ failure = "auto_release_title is not set"
    /\ calls = <<>>
    /\ releases = {OldRelease(RollingTag)}
    /\ tagRefs[RollingTag] \notin {Null, branchHead}

\* a failure of a remote call that is none of the not-found and already-exists
\* answers to a lookup, a create or a delete
Untolerated(call) ==
    \/ call.result = "error"
    \/ call.op = "compareCommits" /\ call.result # "ok"

\* C25: a remote failure that is none of the tolerated not-found or
\* already-exists conditions aborts the run at once: the failed call is the
\* last remote call of the run (no further call, no retry), and the run is in
\* the failed state, with a failure message and without outputs.
C25_FailureAbortsAtOnce ==
    \A i \in 1..Len(calls) :
        Untolerated(calls[i]) =>
            /\ i = Len(calls)
            /\ pc = "failed"
            /\ failure # Null
            /\ ~output.exported

\* a run failed at a pull-request lookup in the middle of its range
C25_Witness ==
    /\ pc = "failed"
    /\ Len(calls) >= 4
    /\ LastCall.op = "listPullRequests"
    /\ LastCall.result = "error"
    /\ local.parsedCommits # <<>>
    /\ local.commits # <<>>
    /\ \A i \in 1..(Len(calls) - 1) : ~Untolerated(calls[i])

----------------------------------------------------------------------------
(* Side effects *)

\* the positions of head resolution, previous-tag resolution, range fetching
\* and pull-request lookup (classification and rendering are parts of their steps)
ReadPositions ==
    {"start", "getHeadHash", "listTags", "isTagExists", "compareCommits", "listPullRequests"}

MutatingCalls(log) == {i \in 1..Len(log) : log[i].op \in MutatingOps}

ReleasesOfOtherTags(rels) == {r \in rels : r.tag_name # ReleaseTag}

\* C26: head resolution, previous-tag resolution, range fetching, pull-request
\* lookup, classification and rendering issue no mutating remote call and
\* leave the remote as it is; in explicit-tag mode no step of a run changes a
\* tag ref, a run issues at most one mutating call, which is a createRelease or
\* an updateRelease for the current tag, and a successful run outside dry-run
\* mode issues exactly one.
C26_SideEffectsConfined ==
    [][runs' = runs =>
          /\ pc \in ReadPositions =>
                /\ UNCHANGED remoteVars
                /\ MutatingCalls(calls') = {}
          /\ ~IsRolling =>
                /\ UNCHANGED <<branchHead, tagRefs>>
                /\ ReleasesOfOtherTags(releases') = ReleasesOfOtherTags(releases)
                /\ Cardinality(MutatingCalls(calls')) <= 1
                /\ \A i \in MutatingCalls(calls') :
                       /\ calls'[i].op \in {"createRelease", "updateRelease"}
                       /\ calls'[i].ref = local'.currReleaseTag
                /\ (pc' = "done" /\ ~isDryRun) => Cardinality(MutatingCalls(calls')) = 1
      ]_vars

\* an explicit-tag run created its release beside two tags, after it had read
\* the tags, the range and the pull requests
C26_Witness ==
    /\ ~IsRolling
    /\ ~isDryRun
    /\ pc = "done"
    /\ Cardinality(MutatingCalls(calls)) = 1
    /\ LastCall.op = "createRelease"
    /\ Cardinality(PresentTags) >= 2
    /\ local.parsedCommits # <<>>
    /\ CountCalls(calls, "listPullRequests") >= 1
    /\ \A t \in PresentTags : tagRefs[t] = TagCommit(t)

----------------------------------------------------------------------------
(* One release per tag *)

\* C27: with at most one release per tag at the start and no other actor, the
\* remote holds at most one release per tag at every point of every run, and
\* createRelease is never issued for a tag that has a release at that moment
\* (the remote never has to refuse one).
C27_OneReleasePerTag ==
    /\ \A t \in TagNames : Cardinality(ReleaseOf(t, releases)) <= 1
    /\ \A r1, r2 \in releases : r1.id = r2.id => r1 = r2
    /\ \A i \in 1..Len(calls) :
           calls[i].op = "createRelease" => calls[i].result # "already_exists"
    /\ pc = "createRelease" => ReleaseOf(ReleaseTag, releases) = {}

\* a rolling-tag run deleted the release of the tag and created a new one
C27_Witness ==
    /\ pc = "done"
    /\ IsRolling
    /\ CountCalls(calls, "deleteRelease") = 1
    /\ CountCalls(calls, "createRelease") = 1
    /\ LastCall.result = "ok"
    /\ Cardinality(ReleaseOf(RollingTag, releases)) = 1
    /\ ReleaseIdOf(RollingTag, releases) = 2

----------------------------------------------------------------------------
(* Dry run and real run *)

\* a real run has completed on the remote and with the configuration of the
\* dry run that completed before it
RealRunAfterDryRun ==
    /\ prevRun.outcome = "done"
    /\ prevRun.output.release_id = DryRunReleaseId
    /\ ~isDryRun
    /\ pc = "done"

ReadOnlyCalls(log) ==
    LET IsRead(call) == call.op \notin MutatingOps
    IN  SelectSeq(log, IsRead)

\* the outputs and the changelog of the two runs agree, up to the placeholders
SameResultsAsDryRun ==
    /\ local.changeLog = prevRun.changeLog
    /\ local.parsedCommits = prevRun.parsedCommits
    /\ prevRun.output.exported
    /\ output.exported
    /\ output.tag = prevRun.output.tag
    /\ output.prev_tag = prevRun.output.prev_tag
    /\ prevRun.output.upload_url = EmptyUrl
    /\ output.release_id > 0
    /\ output.upload_url = UploadUrl(output.release_id)

\* C28 as stated: from the same remote state and configuration, a dry run
\* issues the same read-only remote calls, builds the same changelog and
\* exports the same tag and prev_tag as the real run; all four outputs are
\* exported, release_id and upload_url being placeholders.
C28_DryRunIssuesSameReads ==
    RealRunAfterDryRun =>
        /\ ReadOnlyCalls(calls) = prevRun.calls
        /\ SameResultsAsDryRun

\* the lookups of the reconciliation operations, which a dry run does not reach
ReconciliationLookup(call) ==
    \/ call.op = "getReleaseByTag"
    \/ call.op = "getRef" /\ call.ref = ReleaseTag

\* C28 as amended: a dry run issues the same calls of head resolution,
\* previous-tag resolution, range fetching and pull-request lookup, with the
\* same answers and in the same order, builds the same changelog and exports
\* the same tag and prev_tag; what the real run issues beyond them are its
\* mutating calls and the existence lookups of the reconciliation operations
\* (release by tag, tag ref), which the dry run skips with the mutations.
C28_DryRunIssuesSameResolutionReads ==
    RealRunAfterDryRun =>
        /\ Len(prevRun.calls) <= Len(calls)
        /\ SubSeq(calls, 1, Len(prevRun.calls)) = prevRun.calls
        /\ ReadOnlyCalls(prevRun.calls) = prevRun.calls
        /\ \A i \in (Len(prevRun.calls) + 1)..Len(calls) :
               calls[i].op \in MutatingOps \/ ReconciliationLookup(calls[i])
        /\ \E i \in (Len(prevRun.calls) + 1)..Len(calls) : calls[i].op = "getReleaseByTag"
        /\ SameResultsAsDryRun

\* a rolling-tag run replaced the tag and the release after a dry run had
\* rendered the same commits
C28_Witness ==
    /\ RealRunAfterDryRun
    /\ IsRolling
    /\ local.parsedCommits # <<>>
    /\ local.changeLog = prevRun.changeLog
    /\ CountCalls(prevRun.calls, "listPullRequests") >= 1
    /\ CountCalls(calls, "deleteRelease") = 1
    /\ LastCall.op = "createRelease"

----------------------------------------------------------------------------
(* The range of a rolling-tag run *)

\* the base of the range for the position the rolling tag has in tags
RollingBase(tags) ==
    IF tags[actionArgs.autoReleaseTag] = Null THEN HEAD
    ELSE tags[actionArgs.autoReleaseTag]

\* C29: in rolling-tag mode the existence check of the rolling tag and the
\* range comparison are completed before any mutating call of the run; the
\* comparison is made from the position the tag has then, or from HEAD when
\* the tag does not exist, up to the head commit; and the steps that delete
\* the release, delete the ref, move the tag and write the release leave the
\* range, the parsed commits and the changelog as they were computed.
C29_RangeAgainstPriorTagPosition ==
    [][IsRolling =>
         /\ pc = "compareCommits" =>
              /\ MutatingCalls(calls) = {}
              /\ LastCall.op = "getRef"
              /\ LastCall.ref = actionArgs.autoReleaseTag
              /\ LastCall.result =
                     (IF tagRefs[actionArgs.autoReleaseTag] = Null THEN "not_found" ELSE "ok")
              /\ local.prevRelease =
                     (IF tagRefs[actionArgs.autoReleaseTag] = Null THEN HEAD
                      ELSE actionArgs.autoReleaseTag)
              /\ calls'[Len(calls')].op = "compareCommits"
              /\ calls'[Len(calls')].ref = local.prevRelease
              /\ calls'[Len(calls')].result = "ok" =>
                     local'.compareResult = CompareCommits(RollingBase(tagRefs), local.headHash)
         /\ pc \in RollingTagStage \cup ReleaseStage =>
              /\ \E i \in 1..Len(calls) :
                     /\ calls[i].op = "compareCommits"
                     /\ calls[i].result = "ok"
                     /\ \A j \in MutatingCalls(calls) : i < j
              /\ local'.compareResult = local.compareResult
              /\ local'.parsedCommits = local.parsedCommits
              /\ local'.changeLog = local.changeLog
      ]_vars

\* a rolling tag that existed with a release has been replaced after a range
\* of two commits or more was compared from its old position
C29_Witness ==
    /\ IsRolling
    /\ ~isDryRun
    /\ pc = "done"
    /\ Len(local.compareResult) >= 2
    /\ local.prevRelease = actionArgs.autoReleaseTag
    /\ tagRefs[actionArgs.autoReleaseTag] = local.headHash
    /\ CountCalls(calls, "deleteRelease") = 1
    /\ CountCalls(calls, "deleteRef") = 1
    /\ CountCalls(calls, "createRef") = 1

----------------------------------------------------------------------------
(* Pull-request lookups *)

LookupCalls(log) ==
    LET IsLookup(call) == call.op = "listPullRequests"
    IN  SelectSeq(log, IsLookup)

ShasOf(commits) == [i \in 1..Len(commits) |-> commits[i].sha]

NonMergeCommits(commits) ==
    LET Kept(commit) == ~IsMergeCommit(commit)
    IN  SelectSeq(commits, Kept)

\* the commits of the parsed list carry the pull requests of their own lookup
OwnPullRequestsAttached ==
    \A k \in 1..Len(local.parsedCommits) :
        /\ local.parsedCommits[k].sha = LookupCalls(calls)[k].ref
        /\ local.parsedCommits[k].pullRequests = PullRequestsOf(LookupCalls(calls)[k].ref)

\* C30 as stated: for each commit returned by the range comparison exactly one
\* pull-request lookup is issued, in commit order, each after the earlier ones
\* have returned, and the pull requests attached to a commit are those of its
\* own lookup in the returned order.
C30_OneLookupPerReturnedCommit ==
    LET lookups == LookupCalls(calls)
    IN  /\ Len(lookups) <= Len(local.compareResult)
        /\ [i \in 1..Len(lookups) |-> lookups[i].ref]
               = SubSeq(ShasOf(local.compareResult), 1, Len(lookups))
        /\ \A i \in 1..(Len(lookups) - 1) : lookups[i].result = "ok"
        /\ ChangeLogBuilt => Len(lookups) = Len(local.compareResult)
        /\ Len(local.parsedCommits) <= Len(lookups)
        /\ OwnPullRequestsAttached

\* C30 as amended: for each commit returned by the range comparison that is
\* not a merge commit exactly one pull-request lookup is issued, in commit
\* order, the lookup for a commit only after the lookup for every earlier such
\* commit has returned without failure; merge commits are skipped before any
\* lookup; the pull requests attached to a commit are exactly those returned
\* by its own lookup, in the returned order.
C30_OneLookupPerNonMergeCommit ==
    LET lookups == LookupCalls(calls)
        due == ShasOf(NonMergeCommits(local.compareResult))
    IN  /\ Len(lookups) <= Len(due)
        /\ [i \in 1..Len(lookups) |-> lookups[i].ref] = SubSeq(due, 1, Len(lookups))
        /\ \A i \in 1..(Len(lookups) - 1) : lookups[i].result = "ok"
        /\ ChangeLogBuilt =>
               /\ Len(lookups) = Len(due)
               /\ \A i \in 1..Len(lookups) : lookups[i].result = "ok"
               /\ Len(local.parsedCommits) = Len(due)
        /\ pc = "listPullRequests" =>
               /\ Len(lookups) < Len(due)
               /\ \A i \in 1..Len(lookups) : lookups[i].result = "ok"
               /\ Head(local.commits).sha = due[Len(lookups) + 1]
               /\ Len(local.parsedCommits) = Len(lookups)
        /\ Len(local.parsedCommits) <= Len(lookups)
        /\ OwnPullRequestsAttached

\* a range of three commits with a merge commit in the middle has been parsed
\* with two lookups, the second of which returned two pull requests
C30_Witness ==
    /\ ChangeLogBuilt
    /\ Len(local.compareResult) = 3
    /\ IsMergeCommit(local.compareResult[2])
    /\ Len(LookupCalls(calls)) = 2
    /\ Len(local.parsedCommits) = 2
    /\ Len(local.parsedCommits[2].pullRequests) = 2
    /\ Len(local.parsedCommits[1].pullRequests) = 1

----------------------------------------------------------------------------
(* Breaking-change detection *)

StartsWith(chars, prefix) ==
    /\ Len(prefix) <= Len(chars)
    /\ SubSeq(chars, 1, Len(prefix)) = prefix

WhitespaceChars == {" ", "\t", "\n", "\r"}

\* the text begins with BREAKING CHANGE or BREAKING CHANGES, the two words one
\* space apart, then a colon and a whitespace character
BeginsWithMarkerOneSpace(text) ==
    \E plural \in {<<>>, <<"S">>}, after \in WhitespaceChars :
        StartsWith(CharsOf(text),
                   WordBreaking \o <<" ">> \o WordChange \o plural \o <<":", after>>)

\* the same with any run of one or more whitespace characters between the words
BeginsWithMarkerAnyGap(text) ==
    LET chars == CharsOf(text)
    IN  \E gap \in 1..Len(chars), plural \in {<<>>, <<"S">>}, after \in WhitespaceChars :
            LET tail == WordChange \o plural \o <<":", after>>
                from == Len(WordBreaking) + gap + 1
            IN  /\ StartsWith(chars, WordBreaking)
                /\ from + Len(tail) - 1 <= Len(chars)
                /\ \A i \in (Len(WordBreaking) + 1)..(from - 1) : chars[i] \in WhitespaceChars
                /\ SubSeq(chars, from, from + Len(tail) - 1) = tail

\* C31 as stated: a commit is placed in the Breaking Changes section if and
\* only if its body or its footer begins, at its first character, with
\* BREAKING CHANGE or BREAKING CHANGES in that exact case, followed by a colon
\* and at least one whitespace character.
C31_BreakingIffExactMarker ==
    ChangeLogBuilt =>
        \A i \in 1..Len(local.parsedCommits) :
            LET commit == local.parsedCommits[i]
            IN  "Breaking Changes" \in SectionsWith(local.changeLog, commit.sha)
                    <=> \/ BeginsWithMarkerOneSpace(commit.body)
                        \/ BeginsWithMarkerOneSpace(commit.footer)

\* C31 as amended: a commit is placed in the Breaking Changes section if and
\* only if its body or its footer begins, at its first character, with the
\* word BREAKING, one or more whitespace characters, the word CHANGE or
\* CHANGES, a colon and at least one whitespace character, the words in that
\* exact case; a marker elsewhere in the text, in the header, in another case,
\* or with nothing after the colon does not count.
C31_BreakingIffMarkerAtStart ==
    ChangeLogBuilt =>
        \A i \in 1..Len(local.parsedCommits) :
            LET commit == local.parsedCommits[i]
            IN  "Breaking Changes" \in SectionsWith(local.changeLog, commit.sha)
                    <=> \/ BeginsWithMarkerAnyGap(commit.body)
                        \/ BeginsWithMarkerAnyGap(commit.footer)

\* of two rendered commits, the one whose footer has a tab between the words
\* is under Breaking Changes and the one whose body ends at the colon is not
C31_Witness ==
    /\ ChangeLogBuilt
    /\ Len(local.parsedCommits) = 2
    /\ local.parsedCommits[1].footer = "BREAKING\tCHANGES: x"
    /\ local.parsedCommits[1].body = Null
    /\ local.parsedCommits[2].body = "BREAKING CHANGE:"
    /\ local.parsedCommits[2].footer = Null
    /\ "Breaking Changes" \in SectionsWith(local.changeLog, local.parsedCommits[1].sha)
    /\ "Breaking Changes" \notin SectionsWith(local.changeLog, local.parsedCommits[2].sha)

----------------------------------------------------------------------------
(* Every commit in one section *)

\* the places (section, entry) of a document, among the sections with one of
\* the titles, that list the commit
PlacesOf(changeLog, sha, labels) ==
    {place \in UNION {{<<j, k>> : k \in 1..Len(changeLog[j].entries)} :
                          j \in 1..Len(changeLog)} :
        /\ changeLog[place[1]].label \in labels
        /\ changeLog[place[1]].entries[place[2]].url = <<"html_url", sha>>}

\* the titles of the eleven category sections and of the catch-all section
PartitionLabels ==
    {"Features", "Bug Fixes", "Documentation", "Styles", "Code Refactoring",
     "Performance Improvements", "Tests", "Builds", "Continuous Integration", "Chores",
     "Reverts", "Commits"}

\* C32: every commit of the range that is not a merge commit is listed in the
\* rendered changelog exactly once among the eleven category sections and the
\* Commits section taken together; the Breaking Changes section, where it is
\* listed at most once, is the only other section of the document.
C32_CommitsPartitioned ==
    ChangeLogBuilt =>
        /\ \A j \in 1..Len(local.changeLog) :
               local.changeLog[j].label \in PartitionLabels \cup {"Breaking Changes"}
        /\ \A i \in 1..Len(local.compareResult) :
               LET commit == local.compareResult[i]
               IN  ~ReportedAsMerge(commit) =>
                       /\ Cardinality(PlacesOf(local.changeLog, commit.sha, PartitionLabels)) = 1
                       /\ Cardinality(PlacesOf(local.changeLog, commit.sha,
                                               {"Breaking Changes"})) <= 1

\* three commits were rendered: a fix, a commit of the unknown type wip and an
\* untyped one; the fix is also under Breaking Changes, the others share Commits
C32_Witness ==
    /\ ChangeLogBuilt
    /\ Len(local.parsedCommits) = 3
    /\ local.parsedCommits[1].type = "wip"
    /\ local.parsedCommits[2].type = "fix"
    /\ local.parsedCommits[3].type = Null
    /\ SectionsWith(local.changeLog, local.parsedCommits[2].sha) =
           {"Breaking Changes", "Bug Fixes"}
    /\ SectionsWith(local.changeLog, local.parsedCommits[1].sha) = {"Commits"}
    /\ Cardinality(PlacesOf(local.changeLog, local.parsedCommits[3].sha, PartitionLabels)) = 1

----------------------------------------------------------------------------
(* Failures of the read-only stages *)

\* the run was aborted by a failure of the head lookup, the tag listing, the
\* existence check of the base tag, the range comparison or a pull-request
\* lookup; the existence check is the getRef that precedes the comparison
ReadStageFailure ==
    /\ pc = "failed"
    /\ calls # <<>>
    /\ LastCall.result # "ok"
    /\ \/ LastCall.op \in {"listTags", "compareCommits", "listPullRequests"}
       \/ LastCall.op = "getRef" /\ CountCalls(calls, "compareCommits") = 0

\* C33: when a failure of a read-only stage aborts the run, the run has issued
\* no mutating remote call, every tag ref and every release is as it was when
\* the run started, and no output was exported.
C33_ReadFailureLeavesRemoteUntouched ==
    ReadStageFailure =>
        /\ MutatingCalls(calls) = {}
        /\ tagRefs = startRemote.tagRefs
        /\ releases = startRemote.releases
        /\ ~output.exported

\* a rolling-tag run outside dry-run mode, with the rolling tag behind the
\* head and a release attached to it, was aborted at a pull-request lookup
\* after a range of two commits had been compared
C33_Witness ==
    /\ ReadStageFailure
    /\ IsRolling
    /\ ~isDryRun
    /\ LastCall.op = "listPullRequests"
    /\ Len(local.compareResult) = 2
    /\ tagRefs[actionArgs.autoReleaseTag] \notin {Null, branchHead}
    /\ ReleaseOf(actionArgs.autoReleaseTag, releases) # {}

----------------------------------------------------------------------------
(* Recovery by running again *)

\* the calls of a log that changed the remote
EffectiveCalls(log) == {i \in MutatingCalls(log) : log[i].result = "ok"}

\* a rolling-tag run has completed after a run that was aborted when some of
\* its mutating calls had taken effect
CompletedAfterAbortedRun ==
    /\ IsRolling
    /\ ~isDryRun
    /\ prevRun.outcome = "failed"
    /\ EffectiveCalls(prevRun.calls) # {}
    /\ pc = "done"

\* the first lookup of a release by tag in the log
FirstReleaseLookup(log) ==
    log[CHOOSE i \in 1..Len(log) :
            /\ log[i].op = "getReleaseByTag"
            /\ \A j \in 1..(i - 1) : log[j].op # "getReleaseByTag"]

\* C34: when a rolling-tag run was aborted after a prefix of its mutating
\* calls, a later run on the same branch head that completes ends with the
\* rolling tag at the head and exactly one release attached to it, created by
\* this run from its own changelog, as after an uninterrupted run; what the
\* run does follows from the remote it finds (the base of its range and the
\* answer to its release lookup), not from the aborted run.
C34_RerunRecovers ==
    CompletedAfterAbortedRun =>
        LET tag == actionArgs.autoReleaseTag
        IN  /\ tagRefs[tag] = branchHead
            /\ local.headHash = branchHead
            /\ Cardinality(ReleaseOf(tag, releases)) = 1
            /\ \A r \in ReleaseOf(tag, releases) :
                   /\ r.id = output.release_id
                   /\ r.body = local.changeLog
                   /\ r.name = actionArgs.autoReleaseTitle
            /\ LastCall.op = "createRelease"
            /\ output.exported
            /\ \E i \in 1..Len(calls) :
                   /\ calls[i].op = "compareCommits"
                   /\ calls[i].ref = (IF startRemote.tagRefs[tag] = Null THEN HEAD ELSE tag)
            /\ FirstReleaseLookup(calls).result =
                   (IF ReleaseOf(tag, startRemote.releases) = {} THEN "not_found" ELSE "ok")

\* the aborted run had deleted the release and the tag ref when its createRef
\* failed; the run after it found neither and created both
C34_Witness ==
    /\ CompletedAfterAbortedRun
    /\ \E i, j \in EffectiveCalls(prevRun.calls) :
           prevRun.calls[i].op = "deleteRelease" /\ prevRun.calls[j].op = "deleteRef"
    /\ prevRun.calls[Len(prevRun.calls)].op = "createRef"
    /\ startRemote.tagRefs[actionArgs.autoReleaseTag] = Null
    /\ startRemote.releases = {}
    /\ CountCalls(calls, "createRef") = 1
    /\ local.parsedCommits # <<>>

\* the aborted run had deleted the release when its deleteRef failed
C34_AbortedAfterReleaseDeleted ==
    /\ CompletedAfterAbortedRun
    /\ Cardinality(EffectiveCalls(prevRun.calls)) = 1
    /\ prevRun.calls[Len(prevRun.calls)].op = "deleteRef"
    /\ CountCalls(calls, "updateRef") = 1

\* the aborted run had moved the tag when its createRelease failed
C34_AbortedBeforeRelease ==
    /\ CompletedAfterAbortedRun
    /\ prevRun.calls[Len(prevRun.calls)].op = "createRelease"
    /\ local.compareResult = <<>>

----------------------------------------------------------------------------
(* The release of a rolling-tag run *)

\* C35: in rolling-tag mode, with no other actor on the repository, no run
\* issues updateRelease: when the release step is reached no release exists
\* for the rolling tag, the step takes the create path, and the release of a
\* successful run is a new one, whose id is neither the id of the release the
\* run deleted nor the id of any release that existed when the run started.
C35_RollingReleaseAlwaysCreated ==
    IsRolling =>
        /\ CountCalls(calls, "updateRelease") = 0
        /\ pc # "updateRelease"
        /\ pc \in {"createOrUpdateRelease", "createRelease"} =>
               ReleaseOf(actionArgs.autoReleaseTag, releases) = {}
        /\ (pc = "done" /\ ~isDryRun) =>
               /\ LastCall.op = "createRelease"
               /\ LastCall.result = "ok"
               /\ output.release_id = LastCall.id
               /\ output.release_id \notin {r.id : r \in startRemote.releases}
               /\ \A i \in 1..Len(calls) :
                      calls[i].op = "deleteRelease" => output.release_id # calls[i].id

\* a run that found a release for the rolling tag deleted it and created a new one
C35_Witness ==
    /\ IsRolling
    /\ ~isDryRun
    /\ pc = "done"
    /\ ReleaseOf(actionArgs.autoReleaseTag, startRemote.releases) # {}
    /\ CountCalls(calls, "deleteRelease") = 1
    /\ CountCalls(calls, "deleteRef") = 1
    /\ LastCall.op = "createRelease"
    /\ \E i \in 1..Len(calls) :
           /\ calls[i].op = "deleteRelease"
           /\ calls[i].id # NoReleaseId
           /\ output.release_id > calls[i].id

----------------------------------------------------------------------------
(* Deletion of the rolling tag's ref *)

\* the rolling tag existed without a release when the run started
BareTagAtStart ==
    /\ startRemote.tagRefs[actionArgs.autoReleaseTag] # Null
    /\ ReleaseOf(actionArgs.autoReleaseTag, startRemote.releases) = {}

\* C36: in rolling-tag mode deleteRef is issued only directly after a release
\* of the rolling tag was found by the lookup and deleted with success; when
\* the rolling tag exists and has no release, no deleteRef is issued and the
\* ref is moved to the head by updateRef with force, wherever it was.
C36_RefDeletedOnlyWithRelease ==
    IsRolling =>
        /\ \A j \in 1..Len(calls) :
               calls[j].op = "deleteRef" =>
                   /\ j >= 3
                   /\ calls[j - 1].op = "deleteRelease"
                   /\ calls[j - 1].result = "ok"
                   /\ calls[j - 2].op = "getReleaseByTag"
                   /\ calls[j - 2].result = "ok"
                   /\ calls[j - 1].id = calls[j - 2].id
        /\ pc = "deleteRef" => LastCall.op = "deleteRelease" /\ LastCall.result = "ok"
        /\ BareTagAtStart =>
               /\ CountCalls(calls, "deleteRef") = 0
               /\ CountCalls(calls, "createRef") = 0
               /\ pc # "deleteRef"
               /\ (pc = "done" /\ ~isDryRun) =>
                      /\ HasCall(calls, "updateRef", actionArgs.autoReleaseTag, "ok")
                      /\ tagRefs[actionArgs.autoReleaseTag] = local.headHash

\* a rolling tag without a release, ahead of the branch head, was moved back
\* to the head without being deleted
C36_Witness ==
    /\ IsRolling
    /\ ~isDryRun
    /\ pc = "done"
    /\ BareTagAtStart
    /\ Pos(startRemote.tagRefs[actionArgs.autoReleaseTag]) > Pos(branchHead)
    /\ tagRefs[actionArgs.autoReleaseTag] = branchHead
    /\ CountCalls(calls, "updateRef") = 1

----------------------------------------------------------------------------
(* One head per run *)

\* the run has set the rolling tag
TagSetByRun ==
    \E i \in 1..Len(calls) : calls[i].op \in {"createRef", "updateRef"} /\ calls[i].result = "ok"

----------------------------------------------------------------------------
(* Termination *)

EndPositions == {"done", "failed"}

\* C38: every run comes to an end and stays there, and at its end either the
\* outputs are exported and no failure is reported, or a failure is reported
\* and no output is exported; before the end neither has happened.
C38_RunEndsOneWay ==
    /\ <>[](pc \in EndPositions)
    /\ [](pc = "done" => output.exported /\ failure = Null)
    /\ [](pc = "failed" => ~output.exported /\ failure # Null)
    /\ [](pc \notin EndPositions => ~output.exported /\ failure = Null)

\* a run outside dry-run mode came to its end with the outputs exported,
\* after the remote calls of every stage
C38_Witness ==
    /\ pc = "done"
    /\ output.exported
    /\ failure = Null
    /\ ~isDryRun
    /\ IsRolling
    /\ CountCalls(calls, "listPullRequests") >= 1
    /\ CountCalls(calls, "deleteRef") = 1
    /\ LastCall.op = "createRelease"

----------------------------------------------------------------------------
(* The triggering ref of an explicit-tag run *)

\* the ref has the form tags/<name> or refs/tags/<name>
HasTagRefForm(ref) ==
    \/ Len(ref) >= 2 /\ ref[1] = "tags"
    \/ Len(ref) >= 3 /\ ref[1] = "refs" /\ ref[2] = "tags"

\* the <name> part of a ref of that form
NamePart(ref) ==
    IF ref[1] = "tags" THEN JoinSegments(SubSeq(ref, 2, Len(ref)))
    ELSE JoinSegments(SubSeq(ref, 3, Len(ref)))

\* C39: in explicit-tag mode, a run whose triggering ref is not of the form
\* tags/<name> or refs/tags/<name> with a name that is not empty fails before
\* any remote call, reporting that the reference is no tag, and exports no
\* output; for every other ref the current tag of the run is the <name> part
\* of the ref, whole.
C39_TriggerRefMustBeTag ==
    (~IsRolling /\ githubToken /\ pc # "start") =>
        IF HasTagRefForm(ghContextRef) /\ NamePart(ghContextRef) # ""
        THEN /\ local.currReleaseTag = NamePart(ghContextRef)
             /\ failure # "Reference does not appear to be a tag"
        ELSE /\ pc = "failed"
             /\ failure = "Reference does not appear to be a tag"
             /\ calls = <<>>
             /\ ~output.exported
             /\ local.currReleaseTag = Null

\* a run started by the push of a branch whose name begins with tags/ has
\* failed without a remote call
C39_Witness ==
    /\ ~IsRolling
    /\ githubToken
    /\ ghContextRef = <<"refs", "heads", "tags", "1.0.0">>
    /\ pc = "failed"
    /\ calls = <<>>
    /\ ~output.exported

\* a run started by refs/tags/1.0.0 has listed the tags for the current tag 1.0.0
C39_TagRefAccepted ==
    /\ ~IsRolling
    /\ ghContextRef = <<"refs", "tags", "1.0.0">>
    /\ local.currReleaseTag = "1.0.0"
    /\ pc = "isTagExists"

====
